---- MODULE Spec2Model ----
(***************************************************************************)
(* A model of the playground-games server.                                 *)
(*                                                                         *)
(* The repository holds two server implementations:                        *)
(*   - the Go hub (server/main.go, and its later revision with twelve      *)
(*     engines): one process-wide Hub guarded by hub.mu;                   *)
(*   - the GameRoom durable object (the worker appended to main.go): one   *)
(*     object per room, single-threaded.                                   *)
(* Strings of the program are modelled by integers: player ids, room codes *)
(* and game ids are 1..N, the empty string is 0.                           *)
(***************************************************************************)
EXTENDS Integers, Sequences, FiniteSets, TLC

(* ------------------------------ bounds -------------------------------- *)
NumConns == 2
NumPlayers == 2
NumCodes == 1
NumGameIDs == 2

Conns == 1..NumConns
PlayerIDs == 1..NumPlayers
Codes == 1..NumCodes
GameIDs == 1..NumGameIDs

(* ------------------------- program constants -------------------------- *)
NoPlayer == 0
NoCode == 0
NoGameID == 0
NoPassword == 0
MuFree == 0
MaxRoomPlayers == 8

(* A room code as a client may spell it: k is the upper-case spelling of   *)
(* code k, -k a lower-case spelling of it, 0 the empty string.             *)
InputCodes == (0 - NumCodes)..NumCodes
Passwords == {NoPassword, 1}
HubGameTypes == {"tictactoe", "chess"}
OtherTypes ==
    {"hangman", "memory", "battleship", "trivia", "rps", "connectfour", "uno",
     "mafia", "dotsboxes"}

EngineTypes == {"tictactoe", "jeopardy", "hangman", "memory", "battleship",
                "trivia", "rps", "connectfour", "checkers", "uno", "mafia",
                "dotsboxes"}

(* ------------------------------ helpers ------------------------------- *)
Contains(s, x) == \E i \in 1..Len(s) : s[i] = x

Without(s, x) == SelectSeq(s, LAMBDA y : y # x)

Range(s) == {s[i] : i \in 1..Len(s)}

MapPut(m, k, v) == [x \in DOMAIN m \cup {k} |-> IF x = k THEN v ELSE m[x]]

MapDel(m, k) == [x \in DOMAIN m \ {k} |-> m[x]]

EmptyMap == [x \in {} |-> 0]

(* strings.ToUpper on a room code *)
ToUpper(code) == IF code < 0 THEN 0 - code ELSE code

(* len(code) == 6 *)
HasCodeLength(code) == code # NoCode

VARIABLES
    rooms,          \* hub.rooms: code -> Room
    clients,        \* hub.clients: conn -> Client
    quickMatch,     \* hub.quickMatch
    tictactoeGames, \* hub.tictactoeGames: game id -> TicTacToeGame
    jeopardyGames,  \* hub.jeopardyGames: game id -> JeopardyGame
    checkersGames,  \* hub.checkersGames: game id -> CheckersGame
    otherGames,     \* the other engine maps: engine type -> set of game ids stored
    mu,             \* hub.mu: MuFree, or the conn whose handler holds it
    reply,          \* what the last handler did: origin, outcome, frames written
    inbox,          \* conn -> the chat broadcasts written to its socket, in order
    bcast,          \* conn -> the broadcastToRoom call its worker is inside
    chatSeq,        \* the number of chat broadcasts begun so far
    moveCount,      \* the number of moves that have changed an engine
    ans,            \* conn -> how far its worker is into an answer command
    grRoom,         \* GameRoom.room (the Cloudflare worker): a room or null
    grGame,         \* GameRoom.game: an engine object or null
    grClients,      \* GameRoom.clients: socket -> playerId (NoPlayer for null)
    grOpen,         \* the sockets that are open
    grTimers,       \* the setTimeout callbacks of the GameRoom that have not fired
    engineGames     \* hub.unoGames and the other engine maps of the later revision:
                    \* engine type -> game id -> game

hubVars == <<rooms, clients, quickMatch, tictactoeGames, jeopardyGames,
             checkersGames, otherGames, mu>>

bcastVars == <<inbox, bcast, chatSeq>>

(* everything but the hub and the observed frames *)
grVars == <<grRoom, grGame, grClients, grOpen, grTimers>>

restVars == <<bcastVars, moveCount, ans, grVars, engineGames>>

vars == <<hubVars, reply, restVars>>

(* ------------------------------ frames -------------------------------- *)
Frame(to, type) == [to |-> to, type |-> type]

RECURSIVE Ascending(_)
Ascending(S) ==
    IF S = {} THEN <<>>
    ELSE LET m == CHOOSE x \in S : \A y \in S : x <= y
         IN  <<m>> \o Ascending(S \ {m})

(* sendMessage to every member of a set of conns (a range over hub.clients; *)
(* the recipients are listed in ascending order)                           *)
FramesTo(S, type) == [i \in 1..Cardinality(S) |-> Frame(Ascending(S)[i], type)]

Reply(c, cmd, outcome, frames) ==
    [origin |-> c, cmd |-> cmd, outcome |-> outcome, frames |-> frames]

NoReply == Reply(0, "none", "none", <<>>)

(* the conns whose Client.roomCode equals code *)
ClientsIn(cl, code) == {c \in DOMAIN cl : cl[c].roomCode = code}

(* -------------------------------- rooms ------------------------------- *)
Room(host, players, gameType, gameMode, password) ==
    [host |-> host, players |-> players, spectators |-> <<>>,
     gameType |-> gameType, gameMode |-> gameMode, gameID |-> NoGameID,
     status |-> "waiting", password |-> password,
     isPrivate |-> (password # NoPassword), lastActive |-> "fresh"]

Client(playerID, roomCode) == [playerID |-> playerID, roomCode |-> roomCode]

(* the hub.clients[conn] update of create_room and join_room *)
BindClient(cl, c, playerID, code) ==
    IF c \in DOMAIN cl THEN [cl EXCEPT ![c] = Client(playerID, code)] ELSE cl

(* joinRoom without its player limit *)
joinRoomError_NoLimit(rm, playerID, code, password) ==
    LET up == ToUpper(code) IN
    IF ~HasCodeLength(up) THEN "invalid room code format"
    ELSE IF up \notin DOMAIN rm THEN "room not found"
    ELSE IF rm[up].isPrivate /\ rm[up].password # password
         THEN "invalid room password"
    ELSE ""

(* joinRoom: the error it returns, "" when it returns the room *)
joinRoomError(rm, playerID, code, password) ==
    LET up == ToUpper(code) IN
    IF ~HasCodeLength(up) THEN "invalid room code format"
    ELSE IF up \notin DOMAIN rm THEN "room not found"
    ELSE IF rm[up].isPrivate /\ rm[up].password # password
         THEN "invalid room password"
    ELSE IF Contains(rm[up].players, playerID) THEN ""
    ELSE IF Contains(rm[up].spectators, playerID) THEN ""
    ELSE IF rm[up].status # "playing" /\ Len(rm[up].players) >= MaxRoomPlayers
         THEN "room is full (max 8 players)"
    ELSE ""

(* joinRoom: the rooms map it leaves behind when it returns the room *)
joinRoom(rm, playerID, code, password) ==
    LET up == ToUpper(code)
        room == rm[up]
    IN  IF Contains(room.players, playerID) \/ Contains(room.spectators, playerID)
        THEN rm
        ELSE IF room.status = "playing"
        THEN [rm EXCEPT ![up].spectators = Append(room.spectators, playerID),
                        ![up].lastActive = "fresh"]
        ELSE [rm EXCEPT ![up].players = Append(room.players, playerID),
                        ![up].lastActive = "fresh"]

(* leaveRoom: the rooms map after leaveRoom(playerID, code) *)
leaveRoom(rm, playerID, code) ==
    IF code \notin DOMAIN rm THEN rm
    ELSE LET room == rm[code]
             newPlayers == Without(room.players, playerID)
             newSpectators == Without(room.spectators, playerID)
         IN  IF (Len(newPlayers) = 0 /\ Len(newSpectators) = 0)
                \/ playerID = room.host
             THEN MapDel(rm, code)
             ELSE [rm EXCEPT ![code] =
                     [room EXCEPT !.players = newPlayers,
                                  !.spectators = newSpectators,
                                  !.lastActive = "fresh",
                                  !.host = IF playerID = room.host
                                              /\ Len(newPlayers) > 0
                                           THEN newPlayers[1] ELSE room.host]]

(* -------------------------------- games ------------------------------- *)
NoWinner == 0
DrawWinner == 0 - 1
Cells == 0..8
NumQuestions == 6

EmptyBoard == [i \in Cells |-> ""]

(* the TicTacToeGame startGame builds from room.Players and room.GameMode *)
NewTicTacToe(players, gameMode) ==
    [board |-> EmptyBoard,
     players |-> <<IF Len(players) >= 1 THEN players[1] ELSE NoPlayer,
                   IF Len(players) >= 2 THEN players[2] ELSE NoPlayer>>,
     turn |-> 0, winner |-> NoWinner, moveHistory |-> <<>>,
     gameMode |-> gameMode, lastMoveTime |-> "zero"]

(* getJeopardyQuestions: the value of question i (0-based) *)
QuestionValue(i) == IF i < 2 THEN 100 ELSE IF i < 4 THEN 200 ELSE 300

(* the JeopardyGame startGame builds *)
NewJeopardy(players, gameMode) ==
    [players |-> players,
     scores |-> [q \in Range(players) |-> 0],
     currentQ |-> 0, gameMode |-> gameMode,
     questionStartTime |-> IF gameMode = "speed" THEN "fresh" ELSE "zero"]

(* startGame: room.GameID and room.Status are set for every game type;     *)
(* an engine instance is stored only for the types the if-chain names      *)
startGameRoom(room, gameID) ==
    [room EXCEPT !.gameID = gameID, !.status = "playing", !.lastActive = "fresh"]

startGameTicTacToe(ttt, room, gameID) ==
    IF room.gameType = "tictactoe"
    THEN MapPut(ttt, gameID, NewTicTacToe(room.players, room.gameMode))
    ELSE ttt

startGameJeopardy(jeo, room, gameID) ==
    IF room.gameType = "jeopardy"
    THEN MapPut(jeo, gameID, NewJeopardy(room.players, room.gameMode))
    ELSE jeo

startGameOther(og, room, gameID) ==
    IF room.gameType \in DOMAIN og
    THEN [og EXCEPT ![room.gameType] = @ \cup {gameID}]
    ELSE og

(* the engine instance the start_game broadcast looks up for a room *)
HasEngine(room, ttt, jeo, ck, og) ==
    \/ room.gameType = "tictactoe" /\ room.gameID \in DOMAIN ttt
    \/ room.gameType = "jeopardy" /\ room.gameID \in DOMAIN jeo
    \/ room.gameType = "checkers" /\ room.gameID \in DOMAIN ck
    \/ room.gameType \in DOMAIN og /\ room.gameID \in og[room.gameType]

(* ------------------ the GameRoom durable object (worker) ---------------- *)
(* null, for GameRoom.room and GameRoom.game *)
JsNull == [null |-> TRUE]

(* the constructor *)
InitGameRoom ==
    /\ grRoom = JsNull
    /\ grGame = JsNull
    /\ grClients = EmptyMap
    /\ grOpen = {}
    /\ grTimers = <<>>

(* the moves explored in one behaviour *)
MaxMoves == 5

(* a worker that is not inside an answer command *)
IdleAnswer ==
    [pc |-> "idle", gameID |-> NoGameID, playerID |-> NoPlayer, answer |-> 0,
     q |-> 0 - 1, loaded |-> 0 - 1]

(* the eight lines of the board *)
WinPatterns ==
    {<<0, 1, 2>>, <<3, 4, 5>>, <<6, 7, 8>>, <<0, 3, 6>>, <<1, 4, 7>>, <<2, 5, 8>>,
     <<0, 4, 8>>, <<2, 4, 6>>}

(* makeMove with the turn left where it was *)
makeMove_KeepTurn(game, playerID, index) ==
    [game |-> [game EXCEPT !.board[index] = IF game.turn = 0 THEN "X" ELSE "O"],
     outcome |-> "ok"]

(* makeMove that calls a draw as soon as a placement completes no line *)
makeMove_EarlyDraw(game, playerID, index) ==
    [game |-> [game EXCEPT !.board[index] = IF game.turn = 0 THEN "X" ELSE "O",
                           !.winner = DrawWinner,
                           !.turn = 1 - game.turn],
     outcome |-> "ok"]

(* handleMessage, case make_move, on one TicTacToeGame: the game it leaves *)
(* behind and how it ended ("ok", "timeout", or the error it answers with).*)
(* A clock is "zero" (never set), "fresh" (set, within its limit) or       *)
(* "expired" (set, limit exceeded).                                        *)
makeMove(game, playerID, index) ==
    LET playerIndex == IF game.players[1] = playerID THEN 0
                       ELSE IF game.players[2] = playerID THEN 1 ELSE 0 - 1
        placed == [game.board EXCEPT ![index] = IF playerIndex = 0 THEN "X" ELSE "O"]
        fading == game.gameMode = "fading"
        history == IF fading THEN Append(game.moveHistory, index) ELSE game.moveHistory
        board == IF fading /\ Len(history) > 4
                 THEN [placed EXCEPT ![history[1]] = ""] ELSE placed
        won == \E w \in WinPatterns :
                  /\ board[w[1]] # ""
                  /\ board[w[1]] = board[w[2]]
                  /\ board[w[2]] = board[w[3]]
        winner == IF won THEN playerID
                  ELSE IF game.winner = NoWinner /\ (\A i \in Cells : board[i] # "")
                       THEN DrawWinner ELSE game.winner
    IN  IF game.gameMode = "speed" /\ game.lastMoveTime = "expired"
        THEN [game |-> [game EXCEPT !.winner = game.players[(1 - game.turn) + 1]],
              outcome |-> "timeout"]
        ELSE IF playerIndex = 0 - 1 \/ playerIndex # game.turn
             THEN [game |-> game, outcome |-> "Not your turn"]
        ELSE IF game.board[index] # ""
             THEN [game |-> game, outcome |-> "Cell already taken"]
        ELSE [game |-> [game EXCEPT
                           !.board = board,
                           !.moveHistory = IF fading /\ Len(history) > 4
                                           THEN Tail(history) ELSE history,
                           !.winner = winner,
                           !.lastMoveTime = "fresh",
                           !.turn = 1 - game.turn],
              outcome |-> "ok"]

(* strings.EqualFold: the answer to question i (0-based) is written i + 1, *)
(* and 0 - (i + 1) in the other letter case; 0 is any other text           *)
EqualFold(a, b) == ToUpper(a) = ToUpper(b)

(* answerQuestion that scores a late answer like any other *)
answerQuestion_ScoreLate(game, playerID, answer) ==
    IF game.currentQ >= NumQuestions
    THEN [game |-> game, outcome |-> "No more questions"]
    ELSE [game |-> [game EXCEPT
                       !.scores = IF EqualFold(answer, game.currentQ + 1)
                                  THEN MapPut(@, playerID, QuestionValue(game.currentQ))
                                  ELSE @,
                       !.currentQ = @ + 1,
                       !.questionStartTime = "fresh"],
          outcome |-> IF game.questionStartTime = "expired" THEN "timeout" ELSE "ok"]

(* handleMessage, case answer, on one JeopardyGame (hub.leaderboard, which *)
(* only the leaderboard command reads, is not carried)                     *)
answerQuestion(game, playerID, answer) ==
    LET q == game.currentQ
        correct == EqualFold(answer, q + 1)
        scored == IF correct
                  THEN MapPut(game.scores, playerID,
                              (IF playerID \in DOMAIN game.scores
                               THEN game.scores[playerID] ELSE 0) + QuestionValue(q))
                  ELSE game.scores
    IN  IF q >= NumQuestions
        THEN [game |-> game, outcome |-> "No more questions"]
        ELSE IF game.gameMode = "speed" /\ game.questionStartTime = "expired"
             THEN [game |-> [game EXCEPT !.currentQ = q + 1,
                                         !.questionStartTime = "fresh"],
                   outcome |-> "timeout"]
        ELSE [game |-> [game EXCEPT
                           !.scores = scored,
                           !.currentQ = q + 1,
                           !.questionStartTime = IF game.gameMode = "speed"
                                                 THEN "fresh" ELSE @],
              outcome |-> "ok"]

(* ------------------------------ Checkers -------------------------------- *)
(* A CheckersPiece is [player, king]; player 0 is the empty square.        *)
Squares == 0..7

NoPiece == [player |-> 0, king |-> FALSE]

Abs(n) == IF n < 0 THEN 0 - n ELSE n

(* startGame: Player 2 on the dark squares of rows 0..2, Player 1 on those *)
(* of rows 5..7                                                            *)
InitialCheckersBoard ==
    [row \in Squares |-> [col \in Squares |->
        IF (row + col) % 2 = 1 /\ row < 3 THEN [player |-> 2, king |-> FALSE]
        ELSE IF (row + col) % 2 = 1 /\ row > 4 THEN [player |-> 1, king |-> FALSE]
        ELSE NoPiece]]

NewCheckers(players) ==
    [board |-> InitialCheckersBoard,
     players |-> <<IF Len(players) >= 1 THEN players[1] ELSE NoPlayer,
                   IF Len(players) >= 2 THEN players[2] ELSE NoPlayer>>,
     turn |-> 0,
     winner |-> NoPlayer,
     validMoves |-> {}]

startGameCheckers(ck, room, gameID) ==
    IF room.gameType = "checkers"
    THEN MapPut(ck, gameID, NewCheckers(room.players))
    ELSE ck

(* getCheckersValidMoves, as the set of the moves <<r, c, toRow, toCol>>   *)
(* it collects                                                             *)
getCheckersValidMoves(board, player) ==
    LET dirs(r, c) == IF board[r][c].king THEN {0 - 1, 1}
                      ELSE IF player = 1 THEN {1} ELSE {0 - 1}
        onBoard(r, c) == r \in Squares /\ c \in Squares
        target(r, c, dr, dc) ==
            IF ~onBoard(r + dr, c + dc) THEN {}
            ELSE IF board[r + dr][c + dc].player = 0
                 THEN {<<r, c, r + dr, c + dc>>}
            ELSE IF /\ board[r + dr][c + dc].player # player
                    /\ onBoard(r + 2 * dr, c + 2 * dc)
                    /\ board[r + 2 * dr][c + 2 * dc].player = 0
                 THEN {<<r, c, r + 2 * dr, c + 2 * dc>>}
            ELSE {}
        movesFrom(r, c) ==
            IF board[r][c].player # player THEN {}
            ELSE UNION {target(r, c, dr, dc) : dr \in dirs(r, c), dc \in {0 - 1, 1}}
    IN  UNION {movesFrom(r, c) : r \in Squares, c \in Squares}

(* handleCheckersMove on one CheckersGame: the game it leaves behind and   *)
(* the error it answers with ("" when the move is applied)                 *)
handleCheckersMove(game, playerID, fromRow, fromCol, toRow, toCol) ==
    LET playerIndex == IF game.players[1] = playerID THEN 0
                       ELSE IF game.players[2] = playerID THEN 1 ELSE 0 - 1
        dr == toRow - fromRow
        dc == toCol - fromCol
        midR == (fromRow + toRow) \div 2
        midC == (fromCol + toCol) \div 2
        isJump == Abs(dr) = 2 /\ Abs(dc) = 2
        piece == game.board[fromRow][fromCol]
        captured == IF isJump
                    THEN [game.board EXCEPT ![midR][midC] = NoPiece]
                    ELSE game.board
        crowned == (playerIndex = 0 /\ toRow = 7) \/ (playerIndex = 1 /\ toRow = 0)
        moved == [captured EXCEPT
                     ![toRow][toCol] = [piece EXCEPT !.king = @ \/ crowned],
                     ![fromRow][fromCol] = NoPiece]
        oppCount == Cardinality({sq \in Squares \X Squares :
                                   moved[sq[1]][sq[2]].player = playerIndex + 1})
        winner == IF oppCount = 0 THEN playerID ELSE game.winner
        turn == IF winner = NoPlayer THEN 1 - game.turn ELSE game.turn
        Rejected(g, msg) == [game |-> g, error |-> msg]
    IN  IF game.winner # NoPlayer THEN Rejected(game, "Game already over")
        ELSE IF playerIndex = 0 - 1 \/ playerIndex # game.turn
             THEN Rejected(game, "Not your turn")
        ELSE IF {fromRow, fromCol, toRow, toCol} \ Squares # {}
             THEN Rejected(game, "Invalid coordinates")
        ELSE IF piece.player # playerIndex + 1
             THEN Rejected(game, "No piece there")
        ELSE IF (Abs(dr) # 1 \/ Abs(dc) # 1) /\ ~isJump
             THEN Rejected(game, "Invalid move")
        ELSE IF isJump /\ game.board[midR][midC].player \in {0, playerIndex + 1}
             THEN Rejected(game, "Invalid jump")
        ELSE IF ~piece.king /\ (\/ playerIndex = 0 /\ dr > 0
                                \/ playerIndex = 1 /\ dr < 0)
             THEN Rejected([game EXCEPT !.board = captured], "Can only move forward")
        ELSE [game |-> [game EXCEPT
                           !.board = moved,
                           !.winner = winner,
                           !.turn = turn,
                           !.validMoves = IF winner = NoPlayer
                                          THEN getCheckersValidMoves(moved, turn + 1)
                                          ELSE @],
              error |-> ""]

(* --------------------------- the quick-match queue --------------------- *)
QuickMatchEntry(playerID, gameType, conn) ==
    [playerID |-> playerID, gameType |-> gameType, conn |-> conn]

(* the first pair i < j (1-based) of the nested loops with equal gameType, *)
(* <<0, 0>> when there is none                                             *)
FirstMatch(q) ==
    LET pairs == {ij \in (1..Len(q)) \X (1..Len(q)) :
                    ij[1] < ij[2] /\ q[ij[1]].gameType = q[ij[2]].gameType}
    IN  IF pairs = {} THEN <<0, 0>>
        ELSE CHOOSE ij \in pairs :
               \A kl \in pairs : ij[1] < kl[1] \/ (ij[1] = kl[1] /\ ij[2] <= kl[2])

(* a removal that always drops the head of the queue *)
RemoveAt_Head(q, i) == [k \in 1..(Len(q) - 1) |-> q[k + 1]]

(* q[:i] ++ q[i+1:] for the 1-based index i *)
RemoveAt(q, i) == [k \in 1..(Len(q) - 1) |-> IF k < i THEN q[k] ELSE q[k + 1]]

(* ------------------------------- Init --------------------------------- *)
(* Players that joined a room through sessions that have since left: they  *)
(* fill a room up to one below the limit so that the limit is within reach *)
(* of the few player ids the commands draw from.                           *)
SeedPlayers == [i \in 1..(MaxRoomPlayers - 1) |-> NumPlayers + i]

SeedRoom == Room(SeedPlayers[1], SeedPlayers, "tictactoe", "", NoPassword)

InitHub ==
    /\ clients = EmptyMap
    /\ quickMatch = <<>>
    /\ tictactoeGames = EmptyMap
    /\ jeopardyGames = EmptyMap
    /\ checkersGames = EmptyMap
    /\ otherGames = [t \in OtherTypes |-> {}]
    /\ mu = MuFree
    /\ reply = NoReply
    /\ inbox = [c \in Conns |-> <<>>]
    /\ bcast = [c \in Conns |-> [msg |-> 0, todo |-> {}]]
    /\ chatSeq = 0
    /\ moveCount = 0
    /\ ans = [c \in Conns |-> IdleAnswer]
    /\ InitGameRoom
    /\ engineGames = [t \in OtherTypes |-> EmptyMap]

(* newHub, or a hub in which earlier sessions left a room of seven players *)
Init ==
    /\ InitHub
    /\ rooms \in {EmptyMap, MapPut(EmptyMap, 1, SeedRoom)}

gameVars == <<tictactoeGames, jeopardyGames, checkersGames, otherGames>>

(* --------------------------- hub operations --------------------------- *)
(* Each operation below is a whole handler of handleMessage or             *)
(* handleWebSocket as it acts on the hub. The frames a handler writes are  *)
(* given by the ...Reply operator next to it; a specification that         *)
(* observes frames conjoins reply' = ...Reply to the operation.            *)

(* handleWebSocket, up to the read loop *)
Connect(c) ==
    /\ mu = MuFree
    /\ c \notin DOMAIN clients
    /\ clients' = MapPut(clients, c, Client(NoPlayer, NoCode))
    /\ UNCHANGED <<rooms, quickMatch, gameVars, mu>>

(* createRoom: the rooms map after the room is stored under the code that  *)
(* generateRoomCode drew                                                   *)
createRoom(rm, code, playerID, gameType, gameMode, password) ==
    MapPut(rm, code, Room(playerID, <<playerID>>, gameType, gameMode, password))

(* handleMessage, case create_room *)
CreateRoom(c, playerID, gameType, gameMode, password) ==
    /\ mu = MuFree
    /\ c \in DOMAIN clients
    /\ \E code \in Codes :
         /\ rooms' = createRoom(rooms, code, playerID, gameType, gameMode, password)
         /\ clients' = BindClient(clients, c, playerID, code)
    /\ UNCHANGED <<quickMatch, gameVars, mu>>

CreateRoomReply(c) == Reply(c, "create_room", "ok", <<Frame(c, "room_state")>>)

(* broadcastToRoom, its last statement: the room it served is marked active *)
Touch(rm, code) == [rm EXCEPT ![code].lastActive = "fresh"]

(* JoinRoom with the client record updated before the error is looked at *)
JoinRoom_BindsOnError(c, playerID, code, password) ==
    /\ mu = MuFree
    /\ c \in DOMAIN clients
    /\ clients' = BindClient(clients, c, playerID, ToUpper(code))
    /\ IF joinRoomError(rooms, playerID, code, password) # ""
       THEN UNCHANGED rooms
       ELSE rooms' = Touch(joinRoom(rooms, playerID, code, password), ToUpper(code))
    /\ UNCHANGED <<quickMatch, gameVars, mu>>

(* handleMessage, case join_room *)
JoinRoom(c, playerID, code, password) ==
    /\ mu = MuFree
    /\ c \in DOMAIN clients
    /\ IF joinRoomError(rooms, playerID, code, password) # ""
       THEN UNCHANGED <<rooms, clients>>
       ELSE /\ rooms' = Touch(joinRoom(rooms, playerID, code, password), ToUpper(code))
            /\ clients' = BindClient(clients, c, playerID, ToUpper(code))
    /\ UNCHANGED <<quickMatch, gameVars, mu>>

JoinRoomReply(c, playerID, code, password) ==
    IF joinRoomError(rooms, playerID, code, password) # ""
    THEN Reply(c, "join_room", "rejected", <<Frame(c, "error")>>)
    ELSE Reply(c, "join_room", "ok",
               <<Frame(c, "room_state")>>
               \o FramesTo(ClientsIn(BindClient(clients, c, playerID, ToUpper(code)),
                                     ToUpper(code)),
                           "player_joined"))

(* handleMessage, case leave_room *)
LeaveRoom(c, playerID, code) ==
    /\ mu = MuFree
    /\ c \in DOMAIN clients
    /\ clients' = [clients EXCEPT ![c].roomCode = NoCode]
    /\ rooms' = leaveRoom(rooms, playerID, code)
    /\ UNCHANGED <<quickMatch, gameVars, mu>>

LeaveRoomReply(c) == Reply(c, "leave_room", "ok", <<Frame(c, "room_state")>>)

(* handleMessage, case start_game: the error it answers with, "" when the  *)
(* game is started                                                         *)
startGameError(rm, playerID, code) ==
    IF code \notin DOMAIN rm THEN "Room not found"
    ELSE IF rm[code].host # playerID THEN "Only host can start the game"
    ELSE IF Len(rm[code].players) < 1 THEN "Need at least 1 player"
    ELSE ""

StartGame(c, playerID, code, gameID) ==
    /\ mu = MuFree
    /\ c \in DOMAIN clients
    /\ IF startGameError(rooms, playerID, code) # ""
       THEN UNCHANGED <<rooms, gameVars>>
       ELSE   /\ rooms' = [rooms EXCEPT ![code] = startGameRoom(rooms[code], gameID)]
              /\ tictactoeGames' = startGameTicTacToe(tictactoeGames, rooms[code], gameID)
              /\ jeopardyGames' = startGameJeopardy(jeopardyGames, rooms[code], gameID)
              /\ checkersGames' = startGameCheckers(checkersGames, rooms[code], gameID)
              /\ otherGames' = startGameOther(otherGames, rooms[code], gameID)
    /\ UNCHANGED <<clients, quickMatch, mu>>

(* StartGameReply with the error sent to every session *)
StartGameReply_Broadcast(c, playerID, code) ==
    IF startGameError(rooms, playerID, code) # ""
    THEN Reply(c, "start_game", "rejected", FramesTo(DOMAIN clients, "error"))
    ELSE Reply(c, "start_game", "ok", FramesTo(ClientsIn(clients, code), "game_state"))

StartGameReply(c, playerID, code) ==
    IF startGameError(rooms, playerID, code) # ""
    THEN Reply(c, "start_game", "rejected", <<Frame(c, "error")>>)
    ELSE Reply(c, "start_game", "ok", FramesTo(ClientsIn(clients, code), "game_state"))

(* handleQuickMatch: is playerID already queued *)
AlreadyQueued(q, playerID) == \E i \in 1..Len(q) : q[i].playerID = playerID

(* handleQuickMatch *)
QuickMatch(c, playerID, gameType) ==
    /\ mu = MuFree
    /\ c \in DOMAIN clients
    /\ IF AlreadyQueued(quickMatch, playerID)
       THEN UNCHANGED <<rooms, quickMatch>>
       ELSE LET q == Append(quickMatch, QuickMatchEntry(playerID, gameType, c))
                ij == FirstMatch(q)
            IN  IF ij = <<0, 0>>
                THEN /\ quickMatch' = q
                     /\ UNCHANGED rooms
                ELSE /\ \E code \in Codes :
                          rooms' = MapPut(rooms, code,
                                      Room(q[ij[1]].playerID,
                                           <<q[ij[1]].playerID, q[ij[2]].playerID>>,
                                           q[ij[1]].gameType, "", NoPassword))
                     /\ quickMatch' = RemoveAt(RemoveAt(q, ij[1]), ij[2] - 1)
    /\ UNCHANGED <<clients, gameVars, mu>>

QuickMatchReply(c, playerID, gameType) ==
    IF AlreadyQueued(quickMatch, playerID)
    THEN Reply(c, "quick_match", "rejected", <<Frame(c, "error")>>)
    ELSE LET q == Append(quickMatch, QuickMatchEntry(playerID, gameType, c))
             ij == FirstMatch(q)
         IN  IF ij = <<0, 0>>
             THEN Reply(c, "quick_match", "ok", <<Frame(c, "quick_match")>>)
             ELSE Reply(c, "quick_match", "ok",
                        <<Frame(q[ij[1]].conn, "quick_match_found"),
                          Frame(q[ij[2]].conn, "quick_match_found")>>)

(* handleWebSocket after the read loop ends: it takes hub.mu and, when the *)
(* client holds a roomCode, calls leaveRoom, whose first statement is      *)
(* hub.mu.Lock() on the mutex the caller already holds. sync.RWMutex is    *)
(* not reentrant: the handler blocks there for good, still holding hub.mu. *)
Disconnect(c) ==
    /\ mu = MuFree
    /\ c \in DOMAIN clients
    /\ IF clients[c].roomCode # NoCode
       THEN /\ mu' = c
            /\ UNCHANGED clients
       ELSE /\ clients' = MapDel(clients, c)
            /\ UNCHANGED mu
    /\ UNCHANGED <<rooms, quickMatch, gameVars>>

(* ---------------- the room lifecycle (frames not observed) ------------- *)
HubGameModes == {""}
QuickGameTypes == {"tictactoe"}

Next ==
    \/ \E c \in Conns : Connect(c) /\ UNCHANGED <<reply, restVars>>
    \/ \E c \in Conns, p \in PlayerIDs, gt \in HubGameTypes, gm \in HubGameModes :
          CreateRoom(c, p, gt, gm, NoPassword) /\ UNCHANGED <<reply, restVars>>
    \/ \E c \in Conns, p \in PlayerIDs, code \in InputCodes :
          JoinRoom(c, p, code, NoPassword) /\ UNCHANGED <<reply, restVars>>
    \/ \E c \in Conns, p \in PlayerIDs, code \in InputCodes :
          LeaveRoom(c, p, code) /\ UNCHANGED <<reply, restVars>>
    \/ \E c \in Conns, p \in PlayerIDs, code \in InputCodes :
          \E gameID \in GameIDs :
              StartGame(c, p, code, gameID) /\ UNCHANGED <<reply, restVars>>
    \/ \E c \in Conns, p \in PlayerIDs, gt \in QuickGameTypes :
          QuickMatch(c, p, gt) /\ UNCHANGED <<reply, restVars>>
    \/ \E c \in Conns : Disconnect(c) /\ UNCHANGED <<reply, restVars>>

Spec == Init /\ [][Next]_vars

(* ======================= room lifecycle claims ========================= *)
(* the minimum number of players the specification gives an engine *)
EngineMinPlayers(gameType) ==
    IF gameType = "mafia" THEN 3
    ELSE IF gameType \in {"jeopardy", "trivia", "memory"} THEN 1
    ELSE 2

(* C1: every room in the registry has its host among its players and has   *)
(* between 1 and 8 players.                                                *)
C1_HostAmongPlayers ==
    \A code \in DOMAIN rooms :
        /\ Contains(rooms[code].players, rooms[code].host)
        /\ Len(rooms[code].players) >= 1
        /\ Len(rooms[code].players) <= MaxRoomPlayers

(* a room filled to the limit by join_room, and a quick-match room *)
C1_Witness ==
    \E code \in DOMAIN rooms :
        /\ Len(rooms[code].players) = MaxRoomPlayers
        /\ \E c \in DOMAIN clients : clients[c].roomCode = code

(* C2: for every living room, status = playing, game_id non-empty and an   *)
(* engine instance stored for that game_id all coincide.                   *)
C2_PlayingIffEngine ==
    \A code \in DOMAIN rooms :
        /\ (rooms[code].status = "playing") <=> (rooms[code].gameID # NoGameID)
        /\ (rooms[code].gameID # NoGameID) <=>
              HasEngine(rooms[code], tictactoeGames, jeopardyGames, checkersGames,
                        otherGames)

(* C3: when the host leaves a room in which another player remains, the    *)
(* room stays, the leaver is removed and the first remaining player is the *)
(* new host.                                                               *)
C3_HostSuccession ==
    [][\A c \in Conns, p \in PlayerIDs, code \in Codes :
         (/\ LeaveRoom(c, p, code)
          /\ code \in DOMAIN rooms
          /\ rooms[code].host = p
          /\ Len(Without(rooms[code].players, p)) >= 1)
         => (/\ code \in DOMAIN rooms'
             /\ rooms'[code].players = Without(rooms[code].players, p)
             /\ rooms'[code].host = Without(rooms[code].players, p)[1])]_vars

(* C4: the disconnect handler of a session that holds a room code runs to  *)
(* completion and releases hub.mu: no handler is left holding it.          *)
C4_DisconnectReleasesLock == mu = MuFree

(* C9: start_game takes effect only from the host, in a waiting room that  *)
(* has the engine's minimum number of players; a playing room is never     *)
(* started again.                                                          *)
C9_StartOnlyWhenWaiting ==
    [][\A c \in Conns, p \in PlayerIDs, code \in Codes, gameID \in GameIDs :
         (/\ StartGame(c, p, code, gameID)
          /\ <<rooms, gameVars>>' # <<rooms, gameVars>>)
         => (/\ code \in DOMAIN rooms
             /\ rooms[code].host = p
             /\ rooms[code].status = "waiting"
             /\ Len(rooms[code].players) >= EngineMinPlayers(rooms[code].gameType))]_vars

(* ================== concurrent broadcasts to one room =================== *)
(* Session workers are goroutines. broadcastToRoom holds hub.mu only for   *)
(* reading, so the broadcasts of two workers run at the same time, each    *)
(* writing to the room's sockets one by one in the order its range over    *)
(* the hub.clients map yields them (Go leaves that order unspecified).     *)
MaxChat == 3

(* two sessions in a waiting room: create_room by player 1, join_room by 2 *)
InitBcast ==
    /\ rooms = MapPut(EmptyMap, 1, Room(1, <<1, 2>>, "tictactoe", "", NoPassword))
    /\ clients = [c \in 1..2 |-> Client(c, 1)]
    /\ quickMatch = <<>>
    /\ tictactoeGames = EmptyMap
    /\ jeopardyGames = EmptyMap
    /\ checkersGames = EmptyMap
    /\ otherGames = [t \in OtherTypes |-> {}]
    /\ mu = MuFree
    /\ reply = NoReply
    /\ inbox = [c \in Conns |-> <<>>]
    /\ bcast = [c \in Conns |-> [msg |-> 0, todo |-> {}]]
    /\ chatSeq = 0
    /\ moveCount = 0
    /\ ans = [c \in Conns |-> IdleAnswer]
    /\ InitGameRoom
    /\ engineGames = [t \in OtherTypes |-> EmptyMap]

(* handleMessage, case chat_message: broadcastToRoom finds the room and    *)
(* takes hub.mu.RLock for its loop                                         *)
ChatBegin(w, code) ==
    /\ mu = MuFree
    /\ w \in DOMAIN clients
    /\ bcast[w].msg = 0
    /\ chatSeq < MaxChat
    /\ code \in DOMAIN rooms
    /\ chatSeq' = chatSeq + 1
    /\ bcast' = [bcast EXCEPT ![w] = [msg |-> chatSeq + 1,
                                      todo |-> ClientsIn(clients, code)]]
    /\ UNCHANGED <<hubVars, reply, inbox, moveCount, ans, grVars, engineGames>>

(* one sendMessage of the loop *)
ChatSend(w, r) ==
    /\ bcast[w].msg # 0
    /\ r \in bcast[w].todo
    /\ inbox' = [inbox EXCEPT ![r] = Append(@, bcast[w].msg)]
    /\ bcast' = [bcast EXCEPT ![w].todo = @ \ {r}]
    /\ UNCHANGED <<hubVars, reply, chatSeq, moveCount, ans, grVars, engineGames>>

(* the loop is over: hub.mu.RUnlock *)
ChatEnd(w) ==
    /\ bcast[w].msg # 0
    /\ bcast[w].todo = {}
    /\ bcast' = [bcast EXCEPT ![w] = [msg |-> 0, todo |-> {}]]
    /\ UNCHANGED <<hubVars, reply, inbox, chatSeq, moveCount, ans, grVars, engineGames>>

NextBcast ==
    \/ \E w \in Conns, code \in Codes : ChatBegin(w, code)
    \/ \E w \in Conns, r \in Conns : ChatSend(w, r)
    \/ \E w \in Conns : ChatEnd(w)

SpecBcast == InitBcast /\ [][NextBcast]_vars

Before(s, a, b) == \E i, j \in 1..Len(s) : i < j /\ s[i] = a /\ s[j] = b

(* C5: any two sessions of a room receive the messages broadcast to the    *)
(* room in the same relative order.                                        *)
C5_SameOrder ==
    \A c1, c2 \in Conns, a, b \in 1..MaxChat :
        (Before(inbox[c1], a, b) /\ Contains(inbox[c2], a) /\ Contains(inbox[c2], b))
        => Before(inbox[c2], a, b)

(* ============================ a Checkers game =========================== *)
(* the squares and the displacements the moves are drawn from *)
MoveRows == 2..5

MoveCols == 0..5

MoveDeltas == {0 - 2, 0 - 1, 1, 2}


(* create_room "checkers" by player 1, join_room by player 2, start_game   *)
InitCheckers ==
    /\ rooms = MapPut(EmptyMap, 1,
                 startGameRoom(Room(1, <<1, 2>>, "checkers", "", NoPassword), 1))
    /\ clients = [c \in 1..2 |-> Client(c, 1)]
    /\ quickMatch = <<>>
    /\ tictactoeGames = EmptyMap
    /\ jeopardyGames = EmptyMap
    /\ checkersGames = MapPut(EmptyMap, 1, NewCheckers(<<1, 2>>))
    /\ otherGames = [t \in OtherTypes |-> {}]
    /\ mu = MuFree
    /\ reply = NoReply
    /\ inbox = [c \in Conns |-> <<>>]
    /\ bcast = [c \in Conns |-> [msg |-> 0, todo |-> {}]]
    /\ chatSeq = 0
    /\ moveCount = 0
    /\ ans = [c \in Conns |-> IdleAnswer]
    /\ InitGameRoom
    /\ engineGames = [t \in OtherTypes |-> EmptyMap]

(* handleMakeMove: the game type is that of a room carrying the game id;   *)
(* for "checkers" it hands over to handleCheckersMove                      *)
CheckersFound(gameID) ==
    /\ \E code \in DOMAIN rooms :
          rooms[code].gameID = gameID /\ rooms[code].gameType = "checkers"
    /\ gameID \in DOMAIN checkersGames

CheckersMove(c, gameID, playerID, fromRow, fromCol, toRow, toCol) ==
    /\ mu = MuFree
    /\ c \in DOMAIN clients
    /\ moveCount < MaxMoves
    /\ checkersGames' =
          IF CheckersFound(gameID)
          THEN [checkersGames EXCEPT ![gameID] =
                  handleCheckersMove(@, playerID, fromRow, fromCol, toRow, toCol).game]
          ELSE checkersGames
    /\ moveCount' = IF checkersGames' # checkersGames THEN moveCount + 1 ELSE moveCount
    /\ UNCHANGED <<rooms, clients, quickMatch, tictactoeGames, jeopardyGames,
                   otherGames, mu>>

CheckersMoveReply(c, gameID, playerID, fromRow, fromCol, toRow, toCol) ==
    IF ~CheckersFound(gameID)
    THEN Reply(c, "make_move", "rejected", <<Frame(c, "error")>>)
    ELSE IF handleCheckersMove(checkersGames[gameID], playerID,
                               fromRow, fromCol, toRow, toCol).error # ""
         THEN Reply(c, "make_move", "rejected", <<Frame(c, "error")>>)
    ELSE Reply(c, "make_move", "ok", FramesTo(DOMAIN clients, "game_state"))

NextCheckers ==
    \E c \in Conns, gameID \in GameIDs, fromRow \in MoveRows, fromCol \in MoveCols,
       dr \in MoveDeltas, dc \in MoveDeltas :
        /\ CheckersMove(c, gameID, clients[c].playerID, fromRow, fromCol,
                        fromRow + dr, fromCol + dc)
        /\ reply' = CheckersMoveReply(c, gameID, clients[c].playerID, fromRow, fromCol,
                                      fromRow + dr, fromCol + dc)
        /\ UNCHANGED <<bcastVars, ans, grVars, engineGames>>

SpecCheckers == InitCheckers /\ [][NextCheckers]_vars

(* C6: a move that is rejected leaves the engine state exactly as it was.  *)
C6_RejectedMoveNoChange ==
    [][reply'.outcome = "rejected" => checkersGames' = checkersGames]_vars

(* ===================== moves and answers in the Go hub ================== *)
MaxIndex == 3

(* handleMessage, case make_move *)
MakeMove(c, gameID, playerID, index) ==
    /\ mu = MuFree
    /\ c \in DOMAIN clients
    /\ IF gameID \in DOMAIN tictactoeGames
       THEN tictactoeGames' = [tictactoeGames EXCEPT ![gameID] =
                                  makeMove(@, playerID, index).game]
       ELSE UNCHANGED tictactoeGames
    /\ UNCHANGED <<rooms, clients, quickMatch, jeopardyGames, checkersGames,
                   otherGames, mu>>

MakeMoveReply(c, gameID, playerID, index) ==
    IF gameID \notin DOMAIN tictactoeGames
    THEN Reply(c, "make_move", "rejected", <<Frame(c, "error")>>)
    ELSE LET outcome == makeMove(tictactoeGames[gameID], playerID, index).outcome
         IN  IF outcome = "ok"
             THEN Reply(c, "make_move", "ok", <<Frame(c, "game_state")>>)
             ELSE IF outcome = "timeout"
                  THEN Reply(c, "make_move", "timeout",
                             FramesTo(DOMAIN clients, "game_over"))
             ELSE Reply(c, "make_move", "rejected", <<Frame(c, "error")>>)

(* handleMessage, case answer *)
Answer(c, gameID, playerID, answer) ==
    /\ mu = MuFree
    /\ c \in DOMAIN clients
    /\ IF gameID \in DOMAIN jeopardyGames
       THEN jeopardyGames' = [jeopardyGames EXCEPT ![gameID] =
                                 answerQuestion(@, playerID, answer).game]
       ELSE UNCHANGED jeopardyGames
    /\ UNCHANGED <<rooms, clients, quickMatch, tictactoeGames, checkersGames,
                   otherGames, mu>>

AnswerReply(c, gameID, playerID, answer) ==
    IF gameID \notin DOMAIN jeopardyGames
    THEN Reply(c, "answer", "rejected", <<Frame(c, "error")>>)
    ELSE LET outcome == answerQuestion(jeopardyGames[gameID], playerID, answer).outcome
         IN  IF outcome = "ok"
             THEN Reply(c, "answer", "ok", <<Frame(c, "game_state")>>)
             ELSE IF outcome = "timeout"
                  THEN Reply(c, "answer", "timeout", FramesTo(DOMAIN clients, "timeout"))
             ELSE Reply(c, "answer", "rejected", <<Frame(c, "error")>>)

(* the limit of every running speed clock elapses (time.Since exceeds it)  *)
TimePasses ==
    LET Aged(t) == IF t = "fresh" THEN "expired" ELSE t
    IN  /\ tictactoeGames' = [g \in DOMAIN tictactoeGames |->
                                 [tictactoeGames[g] EXCEPT !.lastMoveTime = Aged(@)]]
        /\ jeopardyGames' = [g \in DOMAIN jeopardyGames |->
                                [jeopardyGames[g] EXCEPT !.questionStartTime = Aged(@)]]
        /\ <<tictactoeGames, jeopardyGames>>' # <<tictactoeGames, jeopardyGames>>
        /\ UNCHANGED <<rooms, clients, quickMatch, checkersGames, otherGames, mu>>

(* the frames every handler writes, observed through reply, from a room in *)
(* which a speed game of either kind has been started: create_room by      *)
(* player 1, join_room by player 2, start_game                             *)
InitMsg ==
    /\ \E gameType \in {"tictactoe", "jeopardy"} :
          LET room == Room(1, <<1, 2>>, gameType, "speed", NoPassword)
          IN  /\ rooms = MapPut(EmptyMap, 1, startGameRoom(room, 1))
              /\ tictactoeGames = startGameTicTacToe(EmptyMap, room, 1)
              /\ jeopardyGames = startGameJeopardy(EmptyMap, room, 1)
    /\ clients = [c \in 1..2 |-> Client(c, 1)]
    /\ quickMatch = <<>>
    /\ checkersGames = EmptyMap
    /\ otherGames = [t \in OtherTypes |-> {}]
    /\ mu = MuFree
    /\ reply = NoReply
    /\ inbox = [c \in Conns |-> <<>>]
    /\ bcast = [c \in Conns |-> [msg |-> 0, todo |-> {}]]
    /\ chatSeq = 0
    /\ moveCount = 0
    /\ ans = [c \in Conns |-> IdleAnswer]
    /\ InitGameRoom
    /\ engineGames = [t \in OtherTypes |-> EmptyMap]

(* every session sends the player id it is bound to *)
NextMsg ==
    \/ \E c \in Conns, code \in InputCodes :
          /\ JoinRoom(c, clients[c].playerID, code, NoPassword)
          /\ reply' = JoinRoomReply(c, clients[c].playerID, code, NoPassword)
          /\ UNCHANGED restVars
    \/ \E c \in Conns, code \in Codes :
          /\ StartGame(c, clients[c].playerID, code, 1)
          /\ reply' = StartGameReply(c, clients[c].playerID, code)
          /\ UNCHANGED restVars
    \/ \E c \in Conns, gameType \in {rooms[code].gameType : code \in DOMAIN rooms} :
          /\ QuickMatch(c, clients[c].playerID, gameType)
          /\ reply' = QuickMatchReply(c, clients[c].playerID, gameType)
          /\ UNCHANGED restVars
    \/ \E c \in Conns, index \in 0..MaxIndex :
          /\ MakeMove(c, 1, clients[c].playerID, index)
          /\ reply' = MakeMoveReply(c, 1, clients[c].playerID, index)
          /\ UNCHANGED restVars
    \/ \E c \in Conns, answer \in (0 - NumQuestions)..NumQuestions :
          /\ Answer(c, 1, clients[c].playerID, answer)
          /\ reply' = AnswerReply(c, 1, clients[c].playerID, answer)
          /\ UNCHANGED restVars
    \/ TimePasses /\ UNCHANGED <<reply, restVars>>

SpecMsg == InitMsg /\ [][NextMsg]_vars

InitRace ==
    /\ rooms = MapPut(EmptyMap, 1,
                 startGameRoom(Room(1, <<1, 2>>, "jeopardy", "", NoPassword), 1))
    /\ clients = [c \in 1..2 |-> Client(c, 1)]
    /\ quickMatch = <<>>
    /\ tictactoeGames = EmptyMap
    /\ jeopardyGames = MapPut(EmptyMap, 1, NewJeopardy(<<1, 2>>, ""))
    /\ checkersGames = EmptyMap
    /\ otherGames = [t \in OtherTypes |-> {}]
    /\ mu = MuFree
    /\ reply = NoReply
    /\ inbox = [c \in Conns |-> <<>>]
    /\ bcast = [c \in Conns |-> [msg |-> 0, todo |-> {}]]
    /\ chatSeq = 0
    /\ moveCount = 0
    /\ ans = [c \in Conns |-> IdleAnswer]
    /\ InitGameRoom
    /\ engineGames = [t \in OtherTypes |-> EmptyMap]

(* the game lookup, the "No more questions" check and the speed timeout    *)
AnswerBegin(w, gameID, playerID, answer) ==
    /\ mu = MuFree
    /\ w \in DOMAIN clients
    /\ ans[w].pc \in {"idle", "done"}
    /\ gameID \in DOMAIN jeopardyGames
    /\ moveCount < MaxMoves
    /\ moveCount' = moveCount + 1
    /\ jeopardyGames[gameID].currentQ < NumQuestions
    /\ IF answerQuestion(jeopardyGames[gameID], playerID, answer).outcome = "timeout"
       THEN /\ jeopardyGames' = [jeopardyGames EXCEPT ![gameID] =
                                    answerQuestion(@, playerID, answer).game]
            /\ UNCHANGED ans
       ELSE /\ ans' = [ans EXCEPT ![w] = [pc |-> "select", gameID |-> gameID,
                                          playerID |-> playerID, answer |-> answer,
                                          q |-> 0 - 1, loaded |-> 0 - 1]]
            /\ UNCHANGED jeopardyGames
    /\ UNCHANGED <<rooms, clients, quickMatch, tictactoeGames, checkersGames,
                   otherGames, mu>>

(* currentQ := game.Questions[game.CurrentQ]: the index is read again, and *)
(* past the last question the index expression panics                      *)
AnswerSelect(w) ==
    /\ ans[w].pc = "select"
    /\ LET q == jeopardyGames[ans[w].gameID].currentQ
       IN  ans' = [ans EXCEPT ![w].q = q,
                              ![w].pc = IF q >= NumQuestions THEN "panic" ELSE "score"]
    /\ UNCHANGED <<hubVars, moveCount>>

(* if correct { game.Scores[playerID] += currentQ.Value } *)
AnswerScore(w) ==
    /\ ans[w].pc = "score"
    /\ LET g == jeopardyGames[ans[w].gameID]
           p == ans[w].playerID
       IN  jeopardyGames' =
             IF EqualFold(ans[w].answer, ans[w].q + 1)
             THEN [jeopardyGames EXCEPT ![ans[w].gameID].scores =
                      MapPut(@, p, (IF p \in DOMAIN @ THEN @[p] ELSE 0)
                                   + QuestionValue(ans[w].q))]
             ELSE jeopardyGames
    /\ ans' = [ans EXCEPT ![w].pc = "load"]
    /\ UNCHANGED <<rooms, clients, quickMatch, tictactoeGames, checkersGames,
                   otherGames, mu, moveCount>>

(* game.CurrentQ++, the read *)
AnswerLoad(w) ==
    /\ ans[w].pc = "load"
    /\ ans' = [ans EXCEPT ![w].loaded = jeopardyGames[ans[w].gameID].currentQ,
                          ![w].pc = "store"]
    /\ UNCHANGED <<hubVars, moveCount>>

(* game.CurrentQ++, the write; the speed clock is reset and the game_state *)
(* is sent                                                                 *)
AnswerStore(w) ==
    /\ ans[w].pc = "store"
    /\ jeopardyGames' = [jeopardyGames EXCEPT
                            ![ans[w].gameID].currentQ = ans[w].loaded + 1,
                            ![ans[w].gameID].questionStartTime =
                                IF jeopardyGames[ans[w].gameID].gameMode = "speed"
                                THEN "fresh" ELSE @]
    /\ ans' = [ans EXCEPT ![w].pc = "done", ![w].answer = 0, ![w].loaded = 0 - 1]
    /\ UNCHANGED <<rooms, clients, quickMatch, tictactoeGames, checkersGames,
                   otherGames, mu, moveCount>>

NextRace ==
    \/ \E w \in Conns, gameID \in GameIDs, answer \in {0, 1} :
          /\ AnswerBegin(w, gameID, clients[w].playerID,
                         answer * (jeopardyGames[gameID].currentQ + 1))
          /\ UNCHANGED <<reply, bcastVars, grVars, engineGames>>
    \/ \E w \in Conns : AnswerSelect(w) /\ UNCHANGED <<reply, bcastVars, grVars, engineGames>>
    \/ \E w \in Conns : AnswerScore(w) /\ UNCHANGED <<reply, bcastVars, grVars, engineGames>>
    \/ \E w \in Conns : AnswerLoad(w) /\ UNCHANGED <<reply, bcastVars, grVars, engineGames>>
    \/ \E w \in Conns : AnswerStore(w) /\ UNCHANGED <<reply, bcastVars, grVars, engineGames>>

SpecRace == InitRace /\ [][NextRace]_vars

(* C7: answers handled at the same time by different workers leave the    *)
(* game as handling them one after the other would: no two of them are     *)
(* accepted for the same question, and current_q is never written from a   *)
(* stale read.                                                             *)
C7_AnswersSerializable ==
    /\ \A w1, w2 \in Conns :
          (/\ w1 # w2
           /\ ans[w1].pc \in {"score", "load", "store", "done"}
           /\ ans[w2].pc \in {"score", "load", "store", "done"}
           /\ ans[w1].gameID = ans[w2].gameID)
          => ans[w1].q # ans[w2].q
    /\ \A w \in Conns :
          ans[w].pc = "store" => ans[w].loaded = jeopardyGames[ans[w].gameID].currentQ

(* ================= the GameRoom durable object (worker) ================= *)
(* One GameRoom object holds one room. Its handlers run to completion one  *)
(* at a time on the object's event loop.                                   *)
MultiPlayerGames == {"uno", "mafia", "trivia", "memory"}

GrGameTypes == {"tictactoe", "memory", "mafia"}

(* a blank player_name, and one that is not blank *)
PlayerNames == {0, 1}

MaxSpectators == 2

(* initializeGame builds the TicTacToe and the Memory object in full; of   *)
(* the other engines only that an object exists is kept; null for the      *)
(* types the switch does not name                                          *)
NumPairs == 2

CardIndexes == 0..(2 * NumPairs - 1)

(* the shuffles: every symbol on two cards *)
Deals ==
    {d \in [CardIndexes -> 1..NumPairs] :
        \A v \in 1..NumPairs : Cardinality({i \in CardIndexes : d[i] = v}) = 2}

(* initializeGame; deal is the outcome of the memory shuffle. scores is the *)
(* empty object for memory; game_over, which memory never initialises,     *)
(* reads as false                                                          *)
initializeGame(gameType, gameMode, players, deal) ==
    LET two == SubSeq(players, 1, IF Len(players) < 2 THEN Len(players) ELSE 2)
    IN  IF gameType = "tictactoe"
        THEN [board |-> EmptyBoard, players |-> two,
              turn |-> 0, winner |-> NoWinner, move_history |-> <<>>]
        ELSE IF gameType = "memory"
        THEN [players |-> two, scores |-> EmptyMap,
              cards |-> [i \in CardIndexes |->
                           [value |-> deal[i], flipped |-> FALSE, matched |-> FALSE]],
              flipped_cards |-> <<>>, matched_pairs |-> 0, current_player |-> 0,
              can_flip |-> TRUE, first_flip |-> 0 - 1, game_over |-> FALSE]
        ELSE IF gameType \in {"hangman", "jeopardy", "trivia"}
             THEN [engine |-> gameType]
        ELSE JsNull

(* broadcast: one frame to every socket in this.clients *)
broadcast(cl, type) == FramesTo(DOMAIN cl, type)

webSocketConnect(ws) ==
    /\ ws \notin grOpen
    /\ grOpen' = grOpen \cup {ws}
    /\ grClients' = MapPut(grClients, ws, NoPlayer)
    /\ UNCHANGED <<grRoom, grGame, grTimers, reply, hubVars, bcastVars, moveCount, ans, engineGames>>

handleCreateRoom(ws, code, playerID, playerName, gameType, gameMode) ==
    /\ ws \in grOpen
    /\ IF playerName = 0
       THEN /\ reply' = Reply(ws, "create_room", "rejected", <<Frame(ws, "error")>>)
            /\ UNCHANGED <<grRoom, grGame, grClients>>
       ELSE /\ grRoom' = [code |-> code, host |-> playerID, players |-> <<playerID>>,
                          playerNames |-> {playerID}, spectators |-> <<>>,
                          gameType |-> gameType,
                          gameMode |-> IF gameMode = "" THEN "classic" ELSE gameMode,
                          gameId |-> NoGameID, status |-> "waiting"]
            /\ grGame' = JsNull
            /\ grClients' = MapPut(grClients, ws, playerID)
            /\ reply' = Reply(ws, "create_room", "ok", <<Frame(ws, "room_state")>>)
    /\ UNCHANGED <<grOpen, grTimers, hubVars, bcastVars, moveCount, ans, engineGames>>

handleJoinRoom(ws, code, playerID, playerName) ==
    /\ ws \in grOpen
    /\ IF playerName = 0 \/ grRoom = JsNull \/ grRoom.code # code
       THEN /\ reply' = Reply(ws, "join_room", "rejected", <<Frame(ws, "error")>>)
            /\ UNCHANGED <<grRoom, grClients>>
       ELSE LET isMultiPlayerGame == grRoom.gameType \in MultiPlayerGames
                maxPlayers == IF isMultiPlayerGame THEN MaxRoomPlayers ELSE 2
                canJoinAsPlayer == /\ Len(grRoom.players) < maxPlayers
                                   /\ (grRoom.status # "playing" \/ isMultiPlayerGame)
                cl == MapPut(grClients, ws, playerID)
            IN  IF ~canJoinAsPlayer /\ grRoom.status # "playing"
                THEN /\ reply' = Reply(ws, "join_room", "rejected",
                                       <<Frame(ws, "error")>>)
                     /\ UNCHANGED <<grRoom, grClients>>
                ELSE /\ grRoom' = IF canJoinAsPlayer
                                  THEN [grRoom EXCEPT !.players = Append(@, playerID),
                                                      !.playerNames = @ \cup {playerID}]
                                  ELSE [grRoom EXCEPT !.spectators = Append(@, playerID),
                                                      !.playerNames = @ \cup {playerID}]
                     /\ grClients' = cl
                     /\ reply' = Reply(ws, "join_room", "ok",
                          <<Frame(ws, "room_state")>>
                          \o (IF grRoom.status = "playing" /\ grGame # JsNull
                              THEN <<Frame(ws, "game_state")>> ELSE <<>>)
                          \o broadcast(cl, "room_state")
                          \o broadcast(cl, "player_joined"))
    /\ UNCHANGED <<grGame, grOpen, grTimers, hubVars, bcastVars, moveCount, ans, engineGames>>

(* what handleLeaveRoom and handleClose do to the room once they go ahead  *)
removePlayer(ws, playerID, cmd) ==
    LET players == Without(grRoom.players, playerID)
        cl == MapDel(grClients, ws)
    IN  /\ grClients' = cl
        /\ IF Len(players) = 0
           THEN grRoom' = JsNull /\ grGame' = JsNull
           ELSE /\ grRoom' = [grRoom EXCEPT
                                 !.players = players,
                                 !.playerNames = @ \ {playerID},
                                 !.host = IF playerID = @ THEN players[1] ELSE @]
                /\ UNCHANGED grGame
        /\ reply' = Reply(ws, cmd, "ok", broadcast(cl, "room_state"))

handleLeaveRoom(ws, playerID) ==
    /\ ws \in grOpen
    /\ IF grRoom = JsNull \/ ws \notin DOMAIN grClients
       THEN /\ reply' = Reply(ws, "leave_room", "rejected", <<>>)
            /\ UNCHANGED <<grRoom, grGame, grClients>>
       ELSE removePlayer(ws, playerID, "leave_room")
    /\ UNCHANGED <<grOpen, grTimers, hubVars, bcastVars, moveCount, ans, engineGames>>

handleStartGame(ws, playerID, gameID) ==
    /\ ws \in grOpen
    /\ IF grRoom = JsNull \/ playerID # grRoom.host \/ Len(grRoom.players) < 1
       THEN /\ reply' = Reply(ws, "start_game", "rejected", <<>>)
            /\ UNCHANGED <<grRoom, grGame>>
       ELSE /\ \E deal \in Deals :
                  grGame' = initializeGame(grRoom.gameType, grRoom.gameMode,
                                           grRoom.players, deal)
            /\ grRoom' = [grRoom EXCEPT !.gameId = gameID, !.status = "playing"]
            /\ reply' = Reply(ws, "start_game", "ok", broadcast(grClients, "game_state"))
    /\ UNCHANGED <<grClients, grOpen, grTimers, hubVars, bcastVars, moveCount, ans, engineGames>>

(* the socket's close event *)
handleClose(ws) ==
    /\ ws \in grOpen
    /\ grOpen' = grOpen \ {ws}
    /\ IF ws \notin DOMAIN grClients \/ grClients[ws] = NoPlayer \/ grRoom = JsNull
       THEN /\ reply' = Reply(ws, "close", "none", <<>>)
            /\ UNCHANGED <<grRoom, grGame, grClients>>
       ELSE removePlayer(ws, grClients[ws], "close")
    /\ UNCHANGED <<grTimers, hubVars, bcastVars, moveCount, ans, engineGames>>

InitWorker ==
    /\ InitHub
    /\ rooms = EmptyMap

(* a join_room carries a player_id that is not in the room yet *)
NextGameRoom ==
    \/ \E ws \in Conns : webSocketConnect(ws)
    \/ \E ws \in Conns, code \in Codes, playerID \in PlayerIDs, playerName \in PlayerNames,
          gameType \in GrGameTypes :
          handleCreateRoom(ws, code, playerID, playerName, gameType, "")
    \/ \E ws \in Conns, code \in InputCodes, playerID \in PlayerIDs,
          playerName \in PlayerNames :
          /\ handleJoinRoom(ws, code, playerID, playerName)
          /\ grRoom # JsNull =>
                /\ playerID \notin Range(grRoom.players) \cup Range(grRoom.spectators)
                /\ Len(grRoom.spectators) < MaxSpectators
    \/ \E ws \in Conns, playerID \in PlayerIDs : handleLeaveRoom(ws, playerID)
    \/ \E ws \in Conns, playerID \in PlayerIDs, gameID \in GameIDs :
          handleStartGame(ws, playerID, gameID)
    \/ \E ws \in Conns : handleClose(ws)

SpecGameRoom == InitWorker /\ [][NextGameRoom]_vars

(* C10: a join_room by a new player_id into a playing room makes the       *)
(* joiner a player (while fewer than 8 play) when the game type is uno,    *)
(* mafia, trivia or memory, and a spectator for every other game type; a   *)
(* joiner made a player is sent the current game_state.                    *)
C10_MidGameJoin ==
    (/\ reply.cmd = "join_room"
     /\ reply.outcome = "ok"
     /\ grRoom # JsNull
     /\ grRoom.status = "playing")
    => LET joiner == grClients[reply.origin]
           asPlayer == /\ grRoom.players[Len(grRoom.players)] = joiner
                       /\ ~Contains(grRoom.spectators, joiner)
           asSpectator == /\ Len(grRoom.spectators) > 0
                          /\ grRoom.spectators[Len(grRoom.spectators)] = joiner
                          /\ ~Contains(grRoom.players, joiner)
       IN  IF grRoom.gameType \in MultiPlayerGames
           THEN \/ asPlayer /\ Contains(reply.frames, Frame(reply.origin, "game_state"))
                \/ asSpectator /\ Len(grRoom.players) = MaxRoomPlayers
           ELSE asSpectator

(* ================= joining: public and private rooms ==================== *)
(* create_room with and without a password, join_room with and without    *)
(* one, leave_room and start_game, with the frames observed               *)
NextJoin ==
    \/ \E c \in Conns : Connect(c) /\ UNCHANGED <<reply, restVars>>
    \/ \E c \in Conns, p \in PlayerIDs, password \in Passwords :
          /\ CreateRoom(c, p, "tictactoe", "", password)
          /\ reply' = CreateRoomReply(c)
          /\ UNCHANGED restVars
    \/ \E c \in Conns, p \in PlayerIDs, code \in InputCodes, password \in Passwords :
          /\ JoinRoom(c, p, code, password)
          /\ reply' = JoinRoomReply(c, p, code, password)
          /\ UNCHANGED restVars
    \/ \E c \in Conns, p \in PlayerIDs, code \in Codes :
          /\ LeaveRoom(c, p, code)
          /\ reply' = LeaveRoomReply(c)
          /\ UNCHANGED restVars
    \/ \E c \in Conns, p \in PlayerIDs, code \in Codes :
          /\ StartGame(c, p, code, 1)
          /\ reply' = StartGameReply(c, p, code)
          /\ UNCHANGED restVars

(* no room, the seeded room, or a room that player 1 created earlier under *)
(* a code that no later create_room of the model draws                     *)
InitJoin ==
    /\ InitHub
    /\ rooms \in {EmptyMap,
                  MapPut(EmptyMap, 1, SeedRoom),
                  createRoom(EmptyMap, NumCodes + 1, 1, "tictactoe", "", NoPassword)}

SpecJoin == InitJoin /\ [][NextJoin]_vars

(* the conditions of a join_room{code, player_id, password} on the rooms   *)
IsMember(rm, code, p) ==
    code \in DOMAIN rm /\ (Contains(rm[code].players, p) \/ Contains(rm[code].spectators, p))

WrongPassword(rm, code, password) ==
    code \in DOMAIN rm /\ rm[code].isPrivate /\ rm[code].password # password

(* what a join_room must do when it fails; formatted: the not-found error  *)
(* is asked only of codes of the 6-character format                        *)
JoinFailures(formatted) ==
    \A c \in Conns, p \in PlayerIDs, code \in InputCodes, password \in Passwords :
         JoinRoom(c, p, code, password) =>
            LET up == ToUpper(code)
                err == joinRoomError(rooms, p, code, password)
            IN  /\ ((formatted => HasCodeLength(up)) /\ up \notin DOMAIN rooms)
                   => err = "room not found"
                /\ WrongPassword(rooms, up, password) => err = "invalid room password"
                /\ (/\ up \in DOMAIN rooms
                    /\ ~WrongPassword(rooms, up, password)
                    /\ ~IsMember(rooms, up, p)
                    /\ rooms[up].status = "waiting"
                    /\ Len(rooms[up].players) = MaxRoomPlayers)
                   => err = "room is full (max 8 players)"
                /\ err # "" => (rooms' = rooms /\ clients' = clients)

(* C11, for codes of the 6-character format: join_room fails with a        *)
(* not-found error when no room has the upper-cased code, with a password  *)
(* error when the room is private and the password differs, with a         *)
(* room-full error when a new player joins a waiting room of 8; a failing  *)
(* join changes no room and does not bind the session.                     *)
C11_JoinFailures ==
    [][JoinFailures(TRUE)]_vars

(* a join was refused at a waiting room of eight *)
C11_Witness ==
    /\ reply.cmd = "join_room"
    /\ reply.outcome = "rejected"
    /\ \E code \in DOMAIN rooms :
          /\ Len(rooms[code].players) = MaxRoomPlayers
          /\ rooms[code].status = "waiting"
          /\ clients[reply.origin].roomCode # code

(* C11 as stated: not-found is reported whenever no room has the code,     *)
(* whatever the code looks like.                                           *)
C11_NotFoundForAnyCode ==
    [][JoinFailures(FALSE)]_vars

(* ================= the worker's room, joins repeated ==================== *)
MaxListed == 3

(* a join_room may carry any player_id, one of the room's own included *)
NextGameRoomRejoin ==
    \/ \E ws \in Conns : webSocketConnect(ws)
    \/ \E ws \in Conns, code \in Codes, playerID \in PlayerIDs, gameType \in GrGameTypes :
          handleCreateRoom(ws, code, playerID, 1, gameType, "")
    \/ \E ws \in Conns, code \in Codes, playerID \in PlayerIDs :
          /\ handleJoinRoom(ws, code, playerID, 1)
          /\ grRoom # JsNull =>
                Len(grRoom.players) + Len(grRoom.spectators) < MaxListed
    \/ \E ws \in Conns, playerID \in PlayerIDs : handleLeaveRoom(ws, playerID)
    \/ \E ws \in Conns, playerID \in PlayerIDs : handleStartGame(ws, playerID, 1)
    \/ \E ws \in Conns : handleClose(ws)

SpecGameRoomRejoin == InitWorker /\ [][NextGameRoomRejoin]_vars

(* C12: a join_room by a player_id that is already among the room's        *)
(* players or spectators succeeds and leaves players, spectators and host  *)
(* as they were, whatever the room's status.                               *)
C12_RejoinIdempotent ==
    [][\A ws \in Conns, code \in Codes, playerID \in PlayerIDs :
         (/\ handleJoinRoom(ws, code, playerID, 1)
          /\ grRoom # JsNull
          /\ grRoom.code = code
          /\ \/ Contains(grRoom.players, playerID)
             \/ Contains(grRoom.spectators, playerID))
         => (/\ reply'.outcome = "ok"
             /\ grRoom'.players = grRoom.players
             /\ grRoom'.spectators = grRoom.spectators
             /\ grRoom'.host = grRoom.host)]_vars

NoRepeats(seq) == \A i, j \in DOMAIN seq : seq[i] = seq[j] => i = j

(* C13: after any sequence of create, join, leave and start commands no    *)
(* player_id appears twice in the room's players and none is in both       *)
(* players and spectators.                                                 *)
C13_NoDuplicateMembers ==
    grRoom # JsNull =>
        /\ NoRepeats(grRoom.players)
        /\ Range(grRoom.players) \cap Range(grRoom.spectators) = {}

(* C14: a player_id is listed, as player or spectator, in at most one      *)
(* living room.                                                            *)
C14_OneRoomPerPlayer ==
    \A p \in PlayerIDs, code1, code2 \in DOMAIN rooms :
        (IsMember(rooms, code1, p) /\ IsMember(rooms, code2, p)) => code1 = code2

(* C15: a create_room never stores the new room under the code of a room   *)
(* that is in the registry.                                                *)
C15_FreshCode ==
    [][reply'.cmd = "create_room"
       => clients'[reply'.origin].roomCode \notin DOMAIN rooms]_vars

(* ========================= the quick-match queue ======================== *)
NumQuickPlayers == 3

QuickPlayers == 1..NumQuickPlayers

NextQuick ==
    \/ \E c \in Conns : Connect(c) /\ UNCHANGED <<reply, restVars>>
    \/ \E c \in Conns, p \in QuickPlayers, gameType \in HubGameTypes :
          /\ QuickMatch(c, p, gameType)
          /\ reply' = QuickMatchReply(c, p, gameType)
          /\ UNCHANGED restVars
    \/ \E c \in Conns :
          /\ Disconnect(c)
          /\ reply' = Reply(c, "close", "none", <<>>)
          /\ UNCHANGED restVars

SpecQuick == InitWorker /\ [][NextQuick]_vars

(* the queue positions holding a game type *)
QueuedFor(q, gameType) == {i \in 1..Len(q) : q[i].gameType = gameType}

(* what a quick_match must do; fresh: only asked of a player_id that has   *)
(* no entry in the queue                                                   *)
PairingRule(fresh) ==
    \A c \in Conns, p \in QuickPlayers, gameType \in HubGameTypes :
        (/\ QuickMatch(c, p, gameType)
         /\ reply' = QuickMatchReply(c, p, gameType)
         /\ fresh => ~AlreadyQueued(quickMatch, p))
        => LET same == QueuedFor(quickMatch, gameType)
           IN  IF same # {}
               THEN LET i == CHOOSE k \in same : \A l \in same : k <= l
                        first == quickMatch[i]
                    IN  /\ quickMatch' = SelectSeq(quickMatch, LAMBDA e : e # first)
                        /\ \E code \in DOMAIN rooms' :
                              /\ rooms'[code].players = <<first.playerID, p>>
                              /\ rooms'[code].spectators = <<>>
                              /\ rooms'[code].status = "waiting"
                              /\ rooms'[code].host = first.playerID
                              /\ \A other \in DOMAIN rooms' \ {code} :
                                    other \in DOMAIN rooms /\ rooms'[other] = rooms[other]
                        /\ reply'.frames = <<Frame(first.conn, "quick_match_found"),
                                             Frame(c, "quick_match_found")>>
               ELSE /\ quickMatch' = Append(quickMatch, QuickMatchEntry(p, gameType, c))
                    /\ rooms' = rooms

C17_QueueOnlyConnected ==
    \A i \in 1..Len(quickMatch) : quickMatch[i].conn \in DOMAIN clients

(* ============================= the janitor ============================== *)
(* more than 30 minutes go by in which nothing happens in one room *)
RoomIdles(code) ==
    /\ code \in DOMAIN rooms
    /\ rooms[code].lastActive = "fresh"
    /\ rooms' = [rooms EXCEPT ![code].lastActive = "stale"]
    /\ UNCHANGED <<clients, quickMatch, gameVars, mu>>

(* cleanupRooms: one tick of the ticker *)
cleanupRooms ==
    /\ mu = MuFree
    /\ rooms' = [code \in {k \in DOMAIN rooms : rooms[k].lastActive # "stale"} |-> rooms[code]]
    /\ UNCHANGED <<clients, quickMatch, gameVars, mu>>

NextJanitor ==
    \/ NextJoin
    \/ \E code \in 1..(NumCodes + 1) :
          RoomIdles(code) /\ reply' = NoReply /\ UNCHANGED restVars
    \/ cleanupRooms /\ reply' = Reply(0, "cleanup", "none", <<>>) /\ UNCHANGED restVars

SpecJanitor == InitJoin /\ [][NextJanitor]_vars

(* C18: a wake of the janitor removes every room whose last_active is more *)
(* than 30 minutes old, sends room_state (room null) to every session      *)
(* whose room_code names such a room and clears that room_code, and leaves *)
(* every other room unchanged.                                             *)
C18_JanitorEvicts ==
    [][reply'.cmd = "cleanup"
       => LET old == {code \in DOMAIN rooms : rooms[code].lastActive = "stale"}
          IN  /\ DOMAIN rooms' = DOMAIN rooms \ old
              /\ \A code \in DOMAIN rooms' : rooms'[code] = rooms[code]
              /\ \A c \in DOMAIN clients :
                    clients[c].roomCode \in old
                    => /\ Contains(reply'.frames, Frame(c, "room_state"))
                       /\ clients'[c].roomCode = NoCode]_vars

(* the player ids a room lists *)
Members(room) == Range(room.players) \cup Range(room.spectators)

(* C19: the leave_room or the disconnect that takes the last member out of *)
(* a room destroys the room, so that no room without players and           *)
(* spectators stays in the registry.                                       *)
C19_LastMemberGone ==
    [][\A c \in Conns :
         /\ \A p \in PlayerIDs, code \in Codes :
               (/\ LeaveRoom(c, p, code)
                /\ code \in DOMAIN rooms
                /\ Members(rooms[code]) = {p})
               => code \notin DOMAIN rooms'
         /\ (/\ Disconnect(c)
             /\ clients[c].roomCode \in DOMAIN rooms
             /\ Members(rooms[clients[c].roomCode]) = {clients[c].playerID})
            => clients[c].roomCode \notin DOMAIN rooms']_vars

RoomScoped == {"leave_room", "start_game", "make_move", "answer", "chat_message"}

(* C20: a room-scoped command of a session that has bound no identity      *)
(* (no create_room, join_room or quick_match yet) fails with an error,     *)
(* changes no room, game or queue state and reaches no other session.      *)
C20_IdentityFirst ==
    [][(/\ reply'.cmd \in RoomScoped
        /\ clients[reply'.origin].playerID = NoPlayer)
       => (/\ reply'.outcome = "rejected"
           /\ <<rooms, quickMatch, gameVars>>' = <<rooms, quickMatch, gameVars>>
           /\ \A i \in 1..Len(reply'.frames) : reply'.frames[i].to = reply'.origin)]_vars

(* ============================ TicTacToe games =========================== *)
(* a room of players 1 and 2 in which start_game has made game 1, each     *)
(* player on a session of their own                                        *)
InitPlaying(gameType, gameMode) ==
    LET room == Room(1, <<1, 2>>, gameType, gameMode, NoPassword)
    IN  /\ rooms = MapPut(EmptyMap, 1, startGameRoom(room, 1))
        /\ tictactoeGames = startGameTicTacToe(EmptyMap, room, 1)
        /\ jeopardyGames = startGameJeopardy(EmptyMap, room, 1)
        /\ clients = [c \in 1..2 |-> Client(c, 1)]
        /\ quickMatch = <<>>
        /\ checkersGames = EmptyMap
        /\ otherGames = [t \in OtherTypes |-> {}]
        /\ mu = MuFree
        /\ reply = NoReply
        /\ inbox = [c \in Conns |-> <<>>]
        /\ bcast = [c \in Conns |-> [msg |-> 0, todo |-> {}]]
        /\ chatSeq = 0
        /\ moveCount = 0
        /\ ans = [c \in Conns |-> IdleAnswer]
        /\ InitGameRoom
        /\ engineGames = [t \in OtherTypes |-> EmptyMap]

InitTicTacToe == \E gameMode \in {"classic", "fading"} : InitPlaying("tictactoe", gameMode)

NextTicTacToe ==
    \E c \in Conns, index \in Cells :
        /\ MakeMove(c, 1, clients[c].playerID, index)
        /\ reply' = MakeMoveReply(c, 1, clients[c].playerID, index)
        /\ UNCHANGED restVars

SpecTicTacToe == InitTicTacToe /\ [][NextTicTacToe]_vars

(* C21: once a game has a winner, every later move is rejected with an     *)
(* error and the winner and the rest of the game state stay as they are.   *)
C21_OverStaysOver ==
    [][(reply'.cmd = "make_move" /\ tictactoeGames[1].winner # NoWinner)
       => (/\ reply'.outcome = "rejected"
           /\ tictactoeGames' = tictactoeGames)]_vars

(* the completed lines of a board, and a board with no empty cell *)
LinesOf(board) ==
    {w \in WinPatterns : board[w[1]] # "" /\ board[w[1]] = board[w[2]] /\ board[w[2]] = board[w[3]]}

Full(board) == \A i \in Cells : board[i] # ""

Classic(game) == game.gameMode \notin {"fading", "speed"}

(* C23, with "at least one" for "exactly one": in classic TicTacToe a      *)
(* state with a winner has a 3-in-a-row on the board, or is a draw on a    *)
(* full board with none.                                                   *)
C23_TerminalBoards ==
    \A g \in DOMAIN tictactoeGames :
        LET game == tictactoeGames[g]
        IN  (Classic(game) /\ game.winner # NoWinner)
            => \/ game.winner # DrawWinner /\ LinesOf(game.board) # {}
               \/ game.winner = DrawWinner /\ Full(game.board) /\ LinesOf(game.board) = {}

(* player 1 has won by a placement that completed two lines at once *)
C23_Witness ==
    /\ Classic(tictactoeGames[1])
    /\ tictactoeGames[1].winner = 1
    /\ Cardinality(LinesOf(tictactoeGames[1].board)) = 2
    /\ \A w \in LinesOf(tictactoeGames[1].board) : tictactoeGames[1].board[w[1]] = "X"
    /\ Full(tictactoeGames[1].board)

(* C23 as stated: on a terminal state exactly one 3-in-a-row exists, or    *)
(* the board is full with none.                                            *)
C23_ExactlyOneLine ==
    \A g \in DOMAIN tictactoeGames :
        LET game == tictactoeGames[g]
        IN  (Classic(game) /\ game.winner # NoWinner)
            => \/ Cardinality(LinesOf(game.board)) = 1
               \/ Full(game.board) /\ LinesOf(game.board) = {}

(* the game after the placements of a sequence of <<player, cell>> pairs *)
RECURSIVE Replay(_, _)
Replay(game, moves) ==
    IF moves = <<>> THEN game
    ELSE Replay(makeMove(game, moves[1][1], moves[1][2]).game, Tail(moves))

(* C24: in classic TicTacToe the first player places X and the second O,   *)
(* in strict alternation from the first player and only on empty cells; a  *)
(* placement that completes three equal marks in a line makes the placer   *)
(* the winner, one that fills the board with no line on it makes the game  *)
(* a draw; P1:4, P2:0, P1:1, P2:3, P1:7 ends with winner P1 and the board  *)
(* [O, X, -, O, X, -, -, X, -].                                            *)
C24_ClassicRules ==
    [][(reply'.cmd = "make_move" /\ Classic(tictactoeGames[1]))
       => LET game == tictactoeGames[1]
              after == tictactoeGames'[1]
              mover == clients[reply'.origin].playerID
              mark == IF mover = game.players[1] THEN "X" ELSE "O"
              final == Replay(NewTicTacToe(<<1, 2>>, "classic"),
                              <<<<1, 4>>, <<2, 0>>, <<1, 1>>, <<2, 3>>, <<1, 7>>>>)
          IN  /\ final.winner = 1
              /\ final.board = [i \in Cells |->
                                  IF i \in {0, 3} THEN "O"
                                  ELSE IF i \in {1, 4, 7} THEN "X" ELSE ""]
              /\ IF reply'.outcome = "ok"
                 THEN /\ mover = game.players[game.turn + 1]
                      /\ after.turn = 1 - game.turn
                      /\ \E i \in Cells :
                            /\ game.board[i] = ""
                            /\ after.board = [game.board EXCEPT ![i] = mark]
                            /\ (\E w \in LinesOf(after.board) :
                                   i \in {w[1], w[2], w[3]}) => after.winner = mover
                      /\ (Full(after.board) /\ LinesOf(after.board) = {})
                         => after.winner = DrawWinner
                 ELSE after = game]_vars

(* the board and winner of the five placements have been reached *)
C24_Witness ==
    /\ Classic(tictactoeGames[1])
    /\ tictactoeGames[1].winner = 1
    /\ tictactoeGames[1].board = [i \in Cells |->
                                    IF i \in {0, 3} THEN "O"
                                    ELSE IF i \in {1, 4, 7} THEN "X" ELSE ""]

(* the cells holding a mark *)
MarksOf(board, mark) == {i \in Cells : board[i] = mark}

(* C25: in fading TicTacToe each player has at most 4 marks on the board   *)
(* after every move; the mark that is cleared is the mover's own oldest    *)
(* one, it is cleared when the mover places a fifth mark (a mover holding  *)
(* fewer than four loses none), and no mark of the other player is removed.*)
C25_FadingKeepsFour ==
    [][(/\ reply'.cmd = "make_move"
        /\ reply'.outcome = "ok"
        /\ tictactoeGames[1].gameMode = "fading")
       => LET game == tictactoeGames[1]
              after == tictactoeGames'[1]
              mark == IF game.turn = 0 THEN "X" ELSE "O"
              other == IF game.turn = 0 THEN "O" ELSE "X"
              held == MarksOf(game.board, mark)
          IN  /\ Cardinality(MarksOf(after.board, "X")) <= 4
              /\ Cardinality(MarksOf(after.board, "O")) <= 4
              /\ MarksOf(after.board, other) = MarksOf(game.board, other)
              /\ IF Cardinality(held) = 4
                 THEN Cardinality(held \ MarksOf(after.board, mark)) = 1
                 ELSE held \subseteq MarksOf(after.board, mark)]_vars

(* the game ids some stored engine instance is kept under *)
StoredGameIDs ==
    DOMAIN tictactoeGames \cup DOMAIN jeopardyGames \cup DOMAIN checkersGames
        \cup UNION {otherGames[t] : t \in DOMAIN otherGames}

(* C22: a game does not outlive its room: every stored engine instance is  *)
(* the game of a room in the registry, so no move or answer can be applied *)
(* to the game of a destroyed room.                                        *)
C22_NoOrphanGame ==
    \A g \in StoredGameIDs : \E code \in DOMAIN rooms : rooms[code].gameID = g

(* ========================= Jeopardy, speed mode ========================= *)
NextJeopardy ==
    \/ \E c \in Conns, answer \in (0 - NumQuestions)..NumQuestions :
          /\ Answer(c, 1, clients[c].playerID, answer)
          /\ reply' = AnswerReply(c, 1, clients[c].playerID, answer)
          /\ UNCHANGED restVars
    \/ TimePasses /\ UNCHANGED <<reply, restVars>>

SpecJeopardy == InitPlaying("jeopardy", "speed") /\ [][NextJeopardy]_vars

MaxTimers == 1

(* GameRoom.handleTicTacToeMove *)
handleTicTacToeMove(game, playerId, index) ==
    IF \/ game.winner # NoWinner
       \/ game.board[index] # ""
       \/ game.turn + 1 > Len(game.players)
       \/ game.players[game.turn + 1] # playerId
    THEN [game |-> game, updateNeeded |-> FALSE]
    ELSE LET board == [game.board EXCEPT ![index] = IF game.turn = 0 THEN "X" ELSE "O"]
             placed == [game EXCEPT !.board = board,
                                    !.move_history = Append(@, index)]
         IN  [game |-> IF \E w \in WinPatterns :
                             /\ board[w[1]] # ""
                             /\ board[w[1]] = board[w[2]]
                             /\ board[w[1]] = board[w[3]]
                       THEN [placed EXCEPT !.winner = playerId]
                       ELSE IF \A i \in Cells : board[i] # ""
                            THEN [placed EXCEPT !.winner = DrawWinner]
                            ELSE [placed EXCEPT !.turn = 1 - game.turn],
              updateNeeded |-> TRUE]

(* handleMemoryMove that turns the matched flag of the card over *)
handleMemoryMove_Unmatch(game, playerId, index) ==
    [game |-> [game EXCEPT !.cards[index].matched = ~@],
     updateNeeded |-> TRUE, timer |-> JsNull]

(* GameRoom.handleMemoryMove: the game it leaves, whether it asks for a    *)
(* broadcast, and the callback it hands to setTimeout (null for none)      *)
handleMemoryMove(game, playerId, index) ==
    IF \/ ~game.can_flip
       \/ game.cards[index].flipped
       \/ game.cards[index].matched
       \/ game.current_player + 1 > Len(game.players)
       \/ game.players[game.current_player + 1] # playerId
    THEN [game |-> game, updateNeeded |-> FALSE, timer |-> JsNull]
    ELSE LET flipped == [game EXCEPT !.cards[index].flipped = TRUE,
                                     !.flipped_cards = Append(@, index)]
             firstIdx == game.first_flip
         IN  IF firstIdx = 0 - 1
             THEN [game |-> [flipped EXCEPT !.first_flip = index],
                   updateNeeded |-> TRUE, timer |-> JsNull]
             ELSE IF game.cards[firstIdx].value = game.cards[index].value
             THEN [game |-> [flipped EXCEPT
                                !.cards[firstIdx].matched = TRUE,
                                !.cards[index].matched = TRUE,
                                !.matched_pairs = @ + 1,
                                !.scores = MapPut(@, playerId,
                                              (IF playerId \in DOMAIN @ THEN @[playerId]
                                               ELSE 0) + 1),
                                !.flipped_cards = <<>>,
                                !.first_flip = 0 - 1,
                                !.game_over = IF game.matched_pairs + 1 >= NumPairs
                                              THEN TRUE ELSE @],
                   updateNeeded |-> TRUE, timer |-> JsNull]
             ELSE [game |-> [flipped EXCEPT !.can_flip = FALSE],
                   updateNeeded |-> TRUE,
                   timer |-> [firstIdx |-> firstIdx, index |-> index]]

(* GameRoom.handleMakeMove *)
handleMakeMove(ws, gameID, playerID, index) ==
    /\ ws \in grOpen
    /\ IF \/ grGame = JsNull
          \/ grRoom.gameId # gameID
          \/ ws \notin DOMAIN grClients
          \/ grClients[ws] # playerID
          \/ grRoom.gameType \notin {"tictactoe", "memory"}
       THEN /\ reply' = Reply(ws, "make_move", "rejected", <<>>)
            /\ UNCHANGED <<grGame, grTimers>>
       ELSE LET res == IF grRoom.gameType = "memory"
                       THEN handleMemoryMove(grGame, playerID, index)
                       ELSE handleTicTacToeMove(grGame, playerID, index)
                          @@ [timer |-> JsNull]
            IN  /\ grGame' = res.game
                /\ grTimers' = IF res.timer = JsNull THEN grTimers
                               ELSE Append(grTimers, res.timer)
                /\ reply' = IF res.updateNeeded
                            THEN Reply(ws, "make_move", "ok",
                                       broadcast(grClients, "game_state"))
                            ELSE Reply(ws, "make_move", "rejected", <<>>)
    /\ UNCHANGED <<grRoom, grClients, grOpen, hubVars, bcastVars, moveCount, ans, engineGames>>

(* the callback of setTimeout(..., 1000) in handleMemoryMove, when it fires *)
hideCards(k) ==
    /\ k \in 1..Len(grTimers)
    /\ grTimers' = RemoveAt(grTimers, k)
    /\ IF grGame # JsNull /\ "cards" \in DOMAIN grGame
       THEN /\ grGame' = [grGame EXCEPT
                             !.cards[grTimers[k].firstIdx].flipped = FALSE,
                             !.cards[grTimers[k].index].flipped = FALSE,
                             !.flipped_cards = <<>>,
                             !.first_flip = 0 - 1,
                             !.current_player = 1 - @,
                             !.can_flip = TRUE]
            /\ reply' = Reply(0, "timer", "ok", broadcast(grClients, "game_state"))
       ELSE /\ UNCHANGED grGame
            /\ reply' = Reply(0, "timer", "none", <<>>)
    /\ UNCHANGED <<grRoom, grClients, grOpen, hubVars, bcastVars, moveCount, ans, engineGames>>

(* sessions send the player id of their socket's number, every room is a   *)
(* Memory room, and a join_room carries a player_id not in the room yet    *)
NextMemory ==
    \/ \E ws \in Conns : webSocketConnect(ws)
    \/ \E ws \in Conns : handleCreateRoom(ws, 1, ws, 1, "memory", "")
    \/ \E ws \in Conns :
          /\ handleJoinRoom(ws, 1, ws, 1)
          /\ grRoom # JsNull => ~Contains(grRoom.players, ws)
    \/ \E ws \in Conns : handleLeaveRoom(ws, ws)
    \/ \E ws \in Conns, gameID \in GameIDs :
          /\ handleStartGame(ws, ws, gameID)
          /\ grRoom # JsNull => grRoom.gameId # gameID
    \/ \E ws \in Conns, index \in CardIndexes :
          /\ handleMakeMove(ws, grRoom.gameId, ws, index)
          /\ Len(grTimers') <= MaxTimers
    \/ \E k \in 1..MaxTimers : hideCards(k)

SpecMemory == InitWorker /\ [][NextMemory]_vars

IsMemory(game) == game # JsNull /\ "cards" \in DOMAIN game

(* C27: in a Memory game a card that is matched stays matched and no score *)
(* goes down (a start_game puts a new game in the place of the old one).   *)
C27_MatchedStays ==
    [][(IsMemory(grGame) /\ IsMemory(grGame') /\ reply'.cmd # "start_game")
       => /\ \A i \in CardIndexes : grGame.cards[i].matched => grGame'.cards[i].matched
          /\ \A p \in DOMAIN grGame.scores :
                p \in DOMAIN grGame'.scores /\ grGame'.scores[p] >= grGame.scores[p]]_vars

(* cards were hidden again in a game that has a matched pair and a score *)
C27_Witness ==
    /\ reply.cmd = "timer"
    /\ reply.outcome = "ok"
    /\ IsMemory(grGame)
    /\ \E i \in CardIndexes : grGame.cards[i].matched
    /\ \E p \in DOMAIN grGame.scores : grGame.scores[p] = 1

(* C30: a card-hide callback that fires when the room no longer holds the  *)
(* game that scheduled it (no game, or a game that is not waiting for its  *)
(* cards to be hidden) changes no card, current_player or can_flip and     *)
(* broadcasts nothing.                                                     *)
C30_StaleTimerNoOp ==
    [][(reply'.cmd = "timer" /\ (~IsMemory(grGame) \/ grGame.can_flip))
       => (grGame' = grGame /\ reply'.frames = <<>>)]_vars

(* ============================ Uno (hub engine) ========================== *)
(* createUnoGame: the deck in the order it is built, before the shuffle:   *)
(* per colour one "0", two each of "1".."9", two each of skip, reverse and *)
(* draw2; then four times wild, wild4                                      *)
UnoDeck ==
    LET nums == <<"1", "2", "3", "4", "5", "6", "7", "8", "9">>
        acts == <<"skip", "reverse", "draw2">>
        twice(color, vs) ==
            [i \in 1..(2 * Len(vs)) |-> [color |-> color, value |-> vs[(i + 1) \div 2]]]
        block(color) ==
            <<[color |-> color, value |-> "0"]>> \o twice(color, nums) \o twice(color, acts)
        wilds == [i \in 1..8 |->
                    [color |-> "wild", value |-> IF i % 2 = 1 THEN "wild" ELSE "wild4"]]
    IN  block("red") \o block("yellow") \o block("green") \o block("blue") \o wilds

(* the shuffle: rand.Intn can produce every order of the deck; the orders   *)
(* explored are the rotations of the built deck by these offsets (hands of  *)
(* wilds, of action cards of one colour, of numbers of two colours)         *)
UnoShuffles ==
    {[i \in 1..Len(UnoDeck) |-> UnoDeck[((i - 1 + k) % Len(UnoDeck)) + 1]] :
        k \in {0, 25, 30, 104}}

(* createUnoGame after the shuffle: each player in turn takes up to 7      *)
(* cards from the end of the deck (hands is a map: a player listed twice   *)
(* keeps only the later hand), the next card from the end is the current   *)
(* card, a wild one is given a random colour                               *)
createUnoGame(players, deck, wildColor) ==
    LET n == Len(deck)
        start(j) == IF n - 7 * (j - 1) > 0 THEN n - 7 * (j - 1) ELSE 0
        count(j) == IF start(j) < 7 THEN start(j) ELSE 7
        hand(j) == [i \in 1..count(j) |-> deck[start(j) - (i - 1)]]
        last(p) == CHOOSE j \in 1..Len(players) :
                      /\ players[j] = p
                      /\ \A k \in 1..Len(players) : players[k] = p => k <= j
        rest == start(Len(players) + 1)
        first == deck[rest]
    IN  [players |-> players,
         deck |-> SubSeq(deck, 1, rest - 1),
         hands |-> [p \in {players[j] : j \in 1..Len(players)} |-> hand(last(p))],
         currentPlayer |-> 0,
         currentCard |-> IF first.color = "wild"
                         THEN [first EXCEPT !.color = wildColor] ELSE first,
         direction |-> 1,
         winner |-> NoPlayer,
         gameOver |-> FALSE]

(* handleUnoMove on a game that exists: the game afterwards and the error  *)
(* sent ("" when the card was played)                                      *)
handleUnoMove(game, playerID, cardIdx, chosenColor) ==
    LET n == Len(game.players)
        idxs == {i \in 1..n : game.players[i] = playerID}
        playerIndex == IF idxs = {} THEN 0 - 1
                       ELSE (CHOOSE i \in idxs : \A k \in idxs : i <= k) - 1
        hand == game.hands[playerID]
        card == hand[cardIdx + 1]
        currentCard == game.currentCard
        valid == \/ card.color = "wild"
                 \/ card.color = currentCard.color
                 \/ card.value = currentCard.value
        played == [game EXCEPT
                     !.hands[playerID] = RemoveAt(hand, cardIdx + 1),
                     !.currentCard =
                         IF card.color = "wild"
                         THEN [card EXCEPT !.color = IF chosenColor = "" THEN "red"
                                                     ELSE chosenColor]
                         ELSE card]
        step(cp, dir) == (cp + dir + n) % n
        draw(g, k) ==
            LET nextPlayerID == g.players[step(g.currentPlayer, g.direction) + 1]
                m == IF Len(g.deck) < k THEN Len(g.deck) ELSE k
            IN  [g EXCEPT !.deck = SubSeq(@, 1, Len(@) - m),
                          !.hands[nextPlayerID] =
                              @ \o [i \in 1..m |-> g.deck[Len(g.deck) - (i - 1)]]]
        special ==
            IF card.value = "reverse"
            THEN [played EXCEPT
                    !.direction = 0 - @,
                    !.currentPlayer = IF n = 2 THEN step(@, 0 - played.direction) ELSE @]
            ELSE IF card.value = "skip"
            THEN [played EXCEPT !.currentPlayer = step(@, played.direction)]
            ELSE IF card.value = "draw2" THEN draw(played, 2)
            ELSE IF card.value = "wild4" THEN draw(played, 4)
            ELSE played
    IN  IF game.gameOver THEN [game |-> game, error |-> "Game already over"]
        ELSE IF playerIndex = 0 - 1 \/ playerIndex # game.currentPlayer
        THEN [game |-> game, error |-> "Not your turn"]
        ELSE IF cardIdx < 0 \/ cardIdx >= Len(hand)
        THEN [game |-> game, error |-> "Invalid card index"]
        ELSE IF ~valid
        THEN [game |-> game, error |-> "Invalid move - card doesn't match"]
        ELSE IF Len(played.hands[playerID]) = 0
        THEN [game |-> [played EXCEPT !.winner = playerID, !.gameOver = TRUE],
              error |-> ""]
        ELSE [game |-> [special EXCEPT !.currentPlayer = step(@, special.direction)],
              error |-> ""]

(* create_room "uno" by player 1, join_room by player 2, start_game        *)
InitUno ==
    /\ rooms = MapPut(EmptyMap, 1,
                 startGameRoom(Room(1, <<1, 2>>, "uno", "", NoPassword), 1))
    /\ clients = [c \in 1..2 |-> Client(c, 1)]
    /\ quickMatch = <<>>
    /\ tictactoeGames = EmptyMap
    /\ jeopardyGames = EmptyMap
    /\ checkersGames = EmptyMap
    /\ otherGames = [t \in OtherTypes |-> IF t = "uno" THEN {1} ELSE {}]
    /\ mu = MuFree
    /\ reply = NoReply
    /\ inbox = [c \in Conns |-> <<>>]
    /\ bcast = [c \in Conns |-> [msg |-> 0, todo |-> {}]]
    /\ chatSeq = 0
    /\ moveCount = 0
    /\ ans = [c \in Conns |-> IdleAnswer]
    /\ InitGameRoom
    /\ \E deck \in UnoShuffles, wildColor \in {"red", "yellow", "green", "blue"} :
          engineGames = [t \in OtherTypes |->
                            IF t = "uno"
                            THEN MapPut(EmptyMap, 1, createUnoGame(<<1, 2>>, deck, wildColor))
                            ELSE EmptyMap]

(* handleMakeMove of the later revision: the game type is that of a room   *)
(* carrying the game id; for "uno" it hands over to handleUnoMove, which   *)
(* ends with broadcastGameState                                            *)
UnoMove(c, gameID, playerID, cardIdx, chosenColor) ==
    LET found == /\ \E code \in DOMAIN rooms :
                       rooms[code].gameID = gameID /\ rooms[code].gameType = "uno"
                 /\ gameID \in DOMAIN engineGames["uno"]
        res == handleUnoMove(engineGames["uno"][gameID], playerID, cardIdx, chosenColor)
    IN  /\ mu = MuFree
        /\ c \in DOMAIN clients
        /\ moveCount < MaxMoves
        /\ engineGames' = IF found
                          THEN [engineGames EXCEPT !["uno"][gameID] = res.game]
                          ELSE engineGames
        /\ moveCount' = IF engineGames' # engineGames THEN moveCount + 1 ELSE moveCount
        /\ reply' = IF found /\ res.error = ""
                    THEN Reply(c, "make_move", "ok", FramesTo(DOMAIN clients, "game_state"))
                    ELSE Reply(c, "make_move", "rejected", <<Frame(c, "error")>>)
        /\ UNCHANGED <<hubVars, bcastVars, ans, grVars>>

NextUno ==
    \E c \in Conns, gameID \in GameIDs, cardIdx \in 0..7, chosenColor \in {"", "blue"} :
        UnoMove(c, gameID, clients[c].playerID, cardIdx, chosenColor)

SpecUno == InitUno /\ [][NextUno]_vars

(* C28: in every Uno game the cards in the players' hands, the deck and    *)
(* the one current (top) card add up to 108, after creation and after      *)
(* every completed move.                                                   *)
HandCards(game) ==
    LET RECURSIVE Sum(_)
        Sum(S) == IF S = {} THEN 0
                  ELSE LET p == CHOOSE q \in S : TRUE
                       IN  Len(game.hands[p]) + Sum(S \ {p})
    IN  Sum(DOMAIN game.hands)

C28_CardsConserved ==
    \A gameID \in DOMAIN engineGames["uno"] :
        LET game == engineGames["uno"][gameID]
        IN  HandCards(game) + Len(game.deck) + 1 = 108

(* ===================== the hub lock and socket writes =================== *)
(* broadcastToRoom: worker w holds hub.mu for reading from the RLock that  *)
(* precedes its loop (ChatBegin) to the deferred RUnlock that follows it   *)
(* (ChatEnd)                                                               *)
HoldsRLock(w) == bcast[w].msg # 0

(* C29: no worker holds the hub lock, for reading or for writing, while it *)
(* writes a frame to a socket: every send step of a room broadcast is      *)
(* taken with the lock released.                                           *)
C29_NoSendUnderLock ==
    [][\A w, r \in Conns : ChatSend(w, r) => ~HoldsRLock(w)]_vars

(* C31: in every Uno state that is not game over the player whose turn it  *)
(* is has at least one move that handleUnoMove accepts (also with no card  *)
(* matching the current colour or value, and with an empty deck).          *)
C31_UnoCanProgress ==
    \A gameID \in DOMAIN engineGames["uno"] :
        LET game == engineGames["uno"][gameID]
            mover == game.players[game.currentPlayer + 1]
        IN  ~game.gameOver =>
                \E cardIdx \in 0..(Len(game.hands[mover]) - 1),
                   chosenColor \in {"", "red", "yellow", "green", "blue"} :
                    handleUnoMove(game, mover, cardIdx, chosenColor).error = ""

(* C32: in Memory, after a first flip the same player's second flip of     *)
(* another face-down unmatched card is accepted; when the cards of a       *)
(* mismatch are hidden again, flipping is re-enabled, both cards are face  *)
(* down and the turn is with the next player in players order, wrapping    *)
(* around.                                                                 *)
C32_MemoryTurns ==
    [][IsMemory(grGame) =>
        /\ (grGame.can_flip /\ grGame.first_flip # 0 - 1
                /\ grGame.current_player < Len(grGame.players))
            => \A index \in CardIndexes :
                  (~grGame.cards[index].flipped /\ ~grGame.cards[index].matched)
                  => handleMemoryMove(grGame, grGame.players[grGame.current_player + 1],
                                      index).updateNeeded
        /\ (reply'.cmd = "timer" /\ ~grGame.can_flip /\ IsMemory(grGame'))
            => /\ grGame'.can_flip
               /\ grGame'.flipped_cards = <<>>
               /\ grGame'.current_player =
                      (grGame.current_player + 1) % Len(grGame.players)]_vars

(* =========================== Mafia (hub engine) ========================= *)
(* createMafiaGame: shuffled is the order the shuffle left the players in, *)
(* detectiveIdx the result of rand.Intn(numPlayers). The role loop gives   *)
(* "mafia" as long as mafiaCount < numMafia, that is to the first numMafia *)
(* players of shuffled, and only after that looks at the two indices.      *)
createMafiaGame(players, shuffled, detectiveIdx) ==
    LET numPlayers == Len(players)
        numMafia == IF numPlayers >= 9 THEN 3 ELSE IF numPlayers >= 6 THEN 2 ELSE 1
        doctorIdx == (detectiveIdx + 1) % numPlayers
        last(p) == CHOOSE i \in 1..Len(shuffled) :
                      /\ shuffled[i] = p
                      /\ \A k \in 1..Len(shuffled) : shuffled[k] = p => k <= i
        role(i) == IF i < numMafia THEN "mafia"
                   ELSE IF i = detectiveIdx THEN "detective"
                   ELSE IF i = doctorIdx THEN "doctor"
                   ELSE "villager"
    IN  [players |-> players,
         roles |-> [p \in {shuffled[i] : i \in 1..Len(shuffled)} |-> role(last(p) - 1)],
         phase |-> "night",
         dayNumber |-> 1,
         alivePlayers |-> players,
         nightActions |-> EmptyMap,
         voteCounts |-> EmptyMap,
         votes |-> EmptyMap,
         killTarget |-> NoPlayer,
         saveTarget |-> NoPlayer,
         investigation |-> <<>>,
         lynchedPlayer |-> NoPlayer,
         winner |-> "",
         gameOver |-> FALSE]

(* handleMafiaAction on a game that exists, with the handlers it hands     *)
(* over to: the game afterwards and the error sent ("" for none). pick is  *)
(* the key at which the range over the night's voteCounts map last raised  *)
(* maxVotes (Go leaves the order of a range over a map unspecified).       *)
handleMafiaAction(game, playerID, action, target, pick) ==
    LET role == IF playerID \in DOMAIN game.roles THEN game.roles[playerID] ELSE ""
        validTarget == Contains(game.alivePlayers, target)
        without(alive, p) == SelectSeq(alive, LAMBDA q : q # p)
        checkMafiaWinConditions(g) ==
            LET alive == {g.alivePlayers[i] : i \in 1..Len(g.alivePlayers)}
                mafiaAlive == Cardinality({p \in alive : g.roles[p] = "mafia"})
                villagersAlive == Cardinality(alive) - mafiaAlive
            IN  IF mafiaAlive = 0
                THEN [g EXCEPT !.winner = "villagers", !.gameOver = TRUE]
                ELSE IF mafiaAlive >= villagersAlive
                THEN [g EXCEPT !.winner = "mafia", !.gameOver = TRUE]
                ELSE g
        processMafiaNightResults(g) ==
            LET kill == IF g.saveTarget = g.killTarget THEN NoPlayer ELSE g.killTarget
                killed == [g EXCEPT !.killTarget = kill,
                                    !.alivePlayers = IF kill # NoPlayer
                                                     THEN without(@, kill) ELSE @]
                checked == checkMafiaWinConditions(killed)
            IN  IF checked.gameOver THEN checked
                ELSE [checked EXCEPT !.phase = "day",
                                     !.dayNumber = @ + 1,
                                     !.nightActions = EmptyMap,
                                     !.killTarget = NoPlayer,
                                     !.saveTarget = NoPlayer,
                                     !.votes = EmptyMap,
                                     !.voteCounts = EmptyMap]
        nightDone(g) ==
            LET actionsComplete ==
                    \A i \in 1..Len(g.alivePlayers) :
                        g.roles[g.alivePlayers[i]] \in {"mafia", "detective", "doctor"}
                        => g.alivePlayers[i] \in DOMAIN g.nightActions
            IN  [game |-> IF actionsComplete THEN processMafiaNightResults(g) ELSE g,
                 error |-> ""]
        recorded(result) ==
            [game EXCEPT !.nightActions =
                             MapPut(@, playerID, [target |-> target, result |-> result])]
        mafiaKill ==
            LET g == recorded("kill")
                alive == {g.alivePlayers[i] : i \in 1..Len(g.alivePlayers)}
                allVoted == \A p \in alive :
                                g.roles[p] = "mafia" => p \in DOMAIN g.nightActions
                voteCount(t) == Cardinality({p \in DOMAIN g.nightActions :
                                    /\ g.nightActions[p].result = "kill"
                                    /\ g.nightActions[p].target = t})
                most == {t \in {g.nightActions[p].target : p \in DOMAIN g.nightActions} :
                            /\ t # NoPlayer
                            /\ voteCount(t) > 0
                            /\ \A p \in DOMAIN g.nightActions :
                                  voteCount(g.nightActions[p].target) <= voteCount(t)
                                  \/ g.nightActions[p].target = NoPlayer}
            IN  IF ~allVoted \/ most = {} THEN g
                ELSE [g EXCEPT !.killTarget = IF pick \in most THEN pick
                                              ELSE CHOOSE t \in most : TRUE]
        handleMafiaNightAction ==
            IF target # NoPlayer /\ ~validTarget
            THEN [game |-> game, error |-> "Invalid target - player not alive"]
            ELSE IF role = "mafia"
            THEN IF action # "kill"
                 THEN [game |-> game, error |-> "Mafia can only kill at night"]
                 ELSE nightDone(mafiaKill)
            ELSE IF role = "detective"
            THEN IF action # "investigate"
                 THEN [game |-> game, error |-> "Detective can only investigate at night"]
                 ELSE nightDone([recorded("investigate") EXCEPT
                                   !.investigation =
                                       IF target # NoPlayer
                                       THEN <<target, game.roles[target] = "mafia">>
                                       ELSE @])
            ELSE IF role = "doctor"
            THEN IF action # "save"
                 THEN [game |-> game, error |-> "Doctor can only save at night"]
                 ELSE nightDone([recorded("save") EXCEPT !.saveTarget = target])
            ELSE IF role = "villager"
            THEN [game |-> game, error |-> "Villagers have no night action"]
            ELSE nightDone(game)
        handleMafiaLynchAction ==
            LET voted == [game EXCEPT
                            !.votes = MapPut(@, playerID, target),
                            !.voteCounts = MapPut(@, target,
                                              (IF target \in DOMAIN @ THEN @[target]
                                               ELSE 0) + 1)]
                vc == voted.voteCounts
                maxVotes == CHOOSE v \in {vc[t] : t \in DOMAIN vc} :
                                \A t \in DOMAIN vc : vc[t] <= v
                tieCount == Cardinality({t \in DOMAIN vc : vc[t] = maxVotes})
                lynchTarget == CHOOSE t \in DOMAIN vc : vc[t] = maxVotes
                lynched == checkMafiaWinConditions(
                               [voted EXCEPT !.lynchedPlayer = lynchTarget,
                                             !.alivePlayers = without(@, lynchTarget)])
            IN  IF action # "vote"
                THEN [game |-> game, error |-> "Must vote to lynch during voting phase"]
                ELSE IF ~validTarget
                THEN [game |-> game, error |-> "Invalid target - player not alive"]
                ELSE IF Cardinality(DOMAIN voted.votes) < Len(game.alivePlayers)
                THEN [game |-> voted, error |-> ""]
                ELSE IF tieCount > 1
                THEN [game |-> [voted EXCEPT !.lynchedPlayer = NoPlayer,
                                             !.phase = "night",
                                             !.votes = EmptyMap,
                                             !.voteCounts = EmptyMap],
                      error |-> ""]
                ELSE [game |-> IF lynched.gameOver THEN lynched
                               ELSE [lynched EXCEPT !.phase = "night",
                                                    !.votes = EmptyMap,
                                                    !.voteCounts = EmptyMap],
                      error |-> ""]
    IN  IF game.gameOver THEN [game |-> game, error |-> "Game already over"]
        ELSE IF ~Contains(game.alivePlayers, playerID)
        THEN [game |-> game, error |-> "You are dead"]
        ELSE IF game.phase = "night" THEN handleMafiaNightAction
        ELSE IF game.phase = "day" THEN [game |-> game, error |-> ""]
        ELSE IF game.phase = "lynch" THEN handleMafiaLynchAction
        ELSE [game |-> game, error |-> "Invalid game phase"]

(* create_room "mafia", join_room by the other players, start_game: the    *)
(* room is playing game 1 and hub.mafiaGames holds one of the given games  *)
InitMafia(games) ==
    \E game \in games :
        /\ rooms = MapPut(EmptyMap, 1,
                     startGameRoom(Room(1, game.players, "mafia", "", NoPassword), 1))
        /\ clients = [c \in {1} |-> Client(c, 1)]
        /\ quickMatch = <<>>
        /\ tictactoeGames = EmptyMap
        /\ jeopardyGames = EmptyMap
        /\ checkersGames = EmptyMap
        /\ otherGames = [t \in OtherTypes |-> IF t = "mafia" THEN {1} ELSE {}]
        /\ mu = MuFree
        /\ reply = NoReply
        /\ inbox = [c \in Conns |-> <<>>]
        /\ bcast = [c \in Conns |-> [msg |-> 0, todo |-> {}]]
        /\ chatSeq = 0
        /\ moveCount = 0
        /\ ans = [c \in Conns |-> IdleAnswer]
        /\ InitGameRoom
        /\ engineGames = [t \in OtherTypes |->
                            IF t = "mafia" THEN MapPut(EmptyMap, 1, game) ELSE EmptyMap]

(* the games createMafiaGame can return for three players *)
CreatedMafiaGames ==
    {createMafiaGame(players, shuffled, detectiveIdx) :
        <<players, shuffled, detectiveIdx>> \in
            UNION {{<<pl, sh, d>> :
                      sh \in {f \in [1..Len(pl) -> 1..Len(pl)] :
                                 \A i, j \in 1..Len(pl) : f[i] = f[j] => i = j},
                      d \in 0..(Len(pl) - 1)} :
                   pl \in {<<1, 2, 3>>}}}

(* handleMakeMove of the later revision, game type "mafia": it hands over  *)
(* to handleMafiaAction; the day handler answers the sender alone, the     *)
(* other two end with broadcastGameState                                   *)
MafiaAction(c, gameID, playerID, action, target, pick) ==
    LET found == /\ \E code \in DOMAIN rooms :
                       rooms[code].gameID = gameID /\ rooms[code].gameType = "mafia"
                 /\ gameID \in DOMAIN engineGames["mafia"]
        res == handleMafiaAction(engineGames["mafia"][gameID], playerID, action,
                                 target, pick)
    IN  /\ mu = MuFree
        /\ c \in DOMAIN clients
        /\ moveCount < MaxMoves
        /\ engineGames' = IF found
                          THEN [engineGames EXCEPT !["mafia"][gameID] = res.game]
                          ELSE engineGames
        /\ moveCount' = IF engineGames' # engineGames THEN moveCount + 1 ELSE moveCount
        /\ reply' = IF ~found \/ res.error # ""
                    THEN Reply(c, "make_move", "rejected", <<Frame(c, "error")>>)
                    ELSE IF engineGames["mafia"][gameID].phase = "day"
                    THEN Reply(c, "make_move", "ok", <<Frame(c, "game_state")>>)
                    ELSE Reply(c, "make_move", "ok",
                               FramesTo(DOMAIN clients, "game_state"))
        /\ UNCHANGED <<hubVars, bcastVars, ans, grVars>>

NextMafia ==
    \E c \in Conns, gameID \in GameIDs, playerID \in 1..4,
       action \in {"kill", "investigate", "save", "vote"}, target \in 0..3,
       pick \in PlayerIDs :
        MafiaAction(c, gameID, playerID, action, target, pick)

SpecMafia == InitMafia(CreatedMafiaGames) /\ [][NextMafia]_vars

(* the players keep sending actions: a step that changes the state is      *)
(* taken whenever one is possible                                          *)
SpecMafiaLive == SpecMafia /\ WF_vars(NextMafia)

(* handleMafiaLynchAction on its own: the games are those of               *)
(* createMafiaGame put at the start of a lynch vote                        *)
SpecMafiaLynch ==
    /\ InitMafia({[g EXCEPT !.phase = "lynch", !.dayNumber = 2] : g \in CreatedMafiaGames})
    /\ [][NextMafia]_vars

(* C35: a Mafia game created for n players has exactly 1 mafia when        *)
(* 3 <= n <= 5 and exactly 2 when 6 <= n <= 8, exactly one doctor, exactly *)
(* one detective, every other player a villager, one role per player.      *)
RoleCount(game, role) == Cardinality({p \in DOMAIN game.roles : game.roles[p] = role})

C35_MafiaRoles ==
    \A gameID \in DOMAIN engineGames["mafia"] :
        LET game == engineGames["mafia"][gameID]
            n == Len(game.players)
        IN  /\ DOMAIN game.roles = {game.players[i] : i \in 1..n}
            /\ (3 <= n /\ n <= 5) => RoleCount(game, "mafia") = 1
            /\ (6 <= n /\ n <= 8) => RoleCount(game, "mafia") = 2
            /\ RoleCount(game, "doctor") = 1
            /\ RoleCount(game, "detective") = 1
            /\ RoleCount(game, "villager") = n - RoleCount(game, "mafia") - 2

(* C33: a Mafia game that is not over changes phase only in the cyclic     *)
(* order night, day, lynch, night, and a game in the day phase eventually  *)
(* reaches the lynch phase.                                                *)
MafiaPhase == engineGames["mafia"][1].phase

C33_PhasesCycle ==
    /\ [][MafiaPhase' # MafiaPhase =>
             <<MafiaPhase, MafiaPhase'>> \in
                 {<<"night", "day">>, <<"day", "lynch">>, <<"lynch", "night">>}]_vars
    /\ (MafiaPhase = "day") ~> (MafiaPhase = "lynch")

(* C34: in the lynch phase each living player contributes at most one vote *)
(* to the tally (a repeated vote replaces the earlier one or is rejected); *)
(* when all living players have voted, the one player with strictly the    *)
(* most votes is removed from the living, and on a tie nobody is removed.  *)
Living(game) == {game.alivePlayers[i] : i \in 1..Len(game.alivePlayers)}

Ballots(votes, t) == Cardinality({p \in DOMAIN votes : votes[p] = t})

handleRPSMove(game, playerID, move) ==
    LET idxs == {i \in 1..2 : game.players[i] = playerID}
        playerIndex == IF idxs = {} THEN 0 - 1
                       ELSE (CHOOSE i \in idxs : \A k \in idxs : i <= k) - 1
        moved == [game EXCEPT !.moves[playerIndex + 1] = move]
        m0 == moved.moves[1]
        m1 == moved.moves[2]
        scored == [moved EXCEPT
                     !.roundOver = TRUE,
                     !.scores = IF m0 = m1 THEN @
                                ELSE IF \/ m0 = "rock" /\ m1 = "scissors"
                                        \/ m0 = "paper" /\ m1 = "rock"
                                        \/ m0 = "scissors" /\ m1 = "paper"
                                THEN [@ EXCEPT ![1] = @ + 1]
                                ELSE [@ EXCEPT ![2] = @ + 1]]
        over == [scored EXCEPT
                   !.gameOver = TRUE,
                   !.winner = IF scored.scores[1] > scored.scores[2] THEN scored.players[1]
                              ELSE IF scored.scores[2] > scored.scores[1]
                              THEN scored.players[2]
                              ELSE DrawWinner]
    IN  IF game.gameOver THEN [game |-> game, error |-> "Game already over"]
        ELSE IF playerIndex = 0 - 1 THEN [game |-> game, error |-> "Not a player"]
        ELSE IF game.moves[playerIndex + 1] # ""
        THEN [game |-> game, error |-> "Already played this round"]
        ELSE IF m0 = "" \/ m1 = "" THEN [game |-> moved, error |-> ""]
        ELSE IF scored.scores[1] > scored.bestOf \div 2
                \/ scored.scores[2] > scored.bestOf \div 2
        THEN [game |-> over, error |-> ""]
        ELSE [game |-> scored, error |-> ""]

(* create_room "rps" by player 1, join_room by player 2 or by nobody,      *)
(* start_game: startGame fills Players from the room and sets BestOf to 3  *)
InitRPS ==
    \E players \in {<<1>>, <<1, 2>>} :
        /\ rooms = MapPut(EmptyMap, 1,
                     startGameRoom(Room(1, players, "rps", "", NoPassword), 1))
        /\ clients = [c \in 1..2 |-> Client(c, 1)]
        /\ quickMatch = <<>>
        /\ tictactoeGames = EmptyMap
        /\ jeopardyGames = EmptyMap
        /\ checkersGames = EmptyMap
        /\ otherGames = [t \in OtherTypes |-> IF t = "rps" THEN {1} ELSE {}]
        /\ mu = MuFree
        /\ reply = NoReply
        /\ inbox = [c \in Conns |-> <<>>]
        /\ bcast = [c \in Conns |-> [msg |-> 0, todo |-> {}]]
        /\ chatSeq = 0
        /\ moveCount = 0
        /\ ans = [c \in Conns |-> IdleAnswer]
        /\ InitGameRoom
        /\ engineGames =
              [t \in OtherTypes |->
                  IF t = "rps"
                  THEN MapPut(EmptyMap, 1,
                          [players |-> [i \in 1..2 |-> IF i <= Len(players)
                                                       THEN players[i] ELSE NoPlayer],
                           turn |-> 0,
                           moves |-> <<"", "">>,
                           winner |-> NoPlayer,
                           bestOf |-> 3,
                           scores |-> <<0, 0>>,
                           roundOver |-> FALSE,
                           gameOver |-> FALSE])
                  ELSE EmptyMap]

(* handleMakeMove of the later revision, game type "rps": it hands over to *)
(* handleRPSMove, which ends with broadcastGameState                       *)
NextRPS ==
    \E c \in Conns, gameID \in GameIDs, playerID \in 0..2,
       move \in {"rock", "paper", "scissors", "lizard"} :
        LET found == /\ \E code \in DOMAIN rooms :
                           rooms[code].gameID = gameID /\ rooms[code].gameType = "rps"
                     /\ gameID \in DOMAIN engineGames["rps"]
            res == handleRPSMove(engineGames["rps"][gameID], playerID, move)
        IN  /\ mu = MuFree
            /\ c \in DOMAIN clients
            /\ engineGames' = IF found
                              THEN [engineGames EXCEPT !["rps"][gameID] = res.game]
                              ELSE engineGames
            /\ reply' = IF found /\ res.error = ""
                        THEN Reply(c, "make_move", "ok",
                                   FramesTo(DOMAIN clients, "game_state"))
                        ELSE Reply(c, "make_move", "rejected", <<Frame(c, "error")>>)
            /\ UNCHANGED <<hubVars, bcastVars, moveCount, ans, grVars>>

SpecRPS == InitRPS /\ [][NextRPS]_vars

(* C36: an RPS round resolves as soon as both moves are recorded (rock     *)
(* beats scissors, scissors beats paper, paper beats rock; the round       *)
(* winner's score rises by exactly one, equal moves change no score);      *)
(* after a resolved round that does not end the game each player can       *)
(* submit a move for the next round; the game is over exactly when a       *)
(* player has reached ceil(best_of / 2) + 1 round wins, with that player   *)
(* as winner.                                                              *)
Beats(a, b) ==
    <<a, b>> \in {<<"rock", "scissors">>, <<"scissors", "paper">>, <<"paper", "rock">>}

C36_RPSRounds ==
    [][LET game == engineGames["rps"][1]
           after == engineGames'["rps"][1]
           needed == (game.bestOf + 1) \div 2 + 1
       IN  /\ (~game.roundOver /\ after.roundOver
                   /\ \A i \in 1..2 : after.moves[i] \in {"rock", "paper", "scissors"}) =>
                 /\ after.scores[1] - game.scores[1] =
                        IF Beats(after.moves[1], after.moves[2]) THEN 1 ELSE 0
                 /\ after.scores[2] - game.scores[2] =
                        IF Beats(after.moves[2], after.moves[1]) THEN 1 ELSE 0
           /\ (game.roundOver /\ ~game.gameOver) =>
                 \A i \in 1..2 : handleRPSMove(game, game.players[i], "rock").error = ""
           /\ game.gameOver <=> (game.scores[1] >= needed \/ game.scores[2] >= needed)
           /\ game.gameOver =>
                 \E i \in 1..2 : game.scores[i] >= needed /\ game.winner = game.players[i]]_vars

(* ======================== Connect Four (hub engine) ===================== *)
(* checkConnectFourWinner on the board holding the placed disc: the symbol *)
(* it returns, "" for none, or "panic" when it indexes the [6][7] array    *)
(* outside 0..5 or 0..6 (a run-time panic in Go). The two diagonal loops   *)
(* run their body once, at (row-3, col-3) and at (row+3, col-3).           *)
checkConnectFourWinner(board, col, row) ==
    LET InBoard(r, c) == r \in 0..5 /\ c \in 0..6
        four(r, c, dr, dc) ==
            /\ board[r][c] # ""
            /\ \A k \in 1..3 : board[r + k * dr][c + k * dc] = board[r][c]
        horizontal == {c \in 0..(col - 3) : four(row, c, 0, 1)}
    IN  IF row >= 3 /\ board[row - 1][col] # ""
           /\ board[row - 1][col] = board[row - 2][col]
           /\ board[row - 2][col] = board[row - 3][col]
        THEN board[row][col]
        ELSE IF horizontal # {}
        THEN board[row][CHOOSE c \in horizontal : \A d \in horizontal : c <= d]
        ELSE IF ~InBoard(row - 3, col - 3) THEN "panic"
        ELSE IF four(row - 3, col - 3, 1, 1) THEN board[row - 3][col - 3]
        ELSE IF ~InBoard(row + 3, col - 3) THEN "panic"
        ELSE IF four(row + 3, col - 3, 0 - 1, 1) THEN board[row + 3][col - 3]
        ELSE ""

(* handleConnectFourMove on a game that exists: the game afterwards, the   *)
(* error sent ("" for none) and whether the handler panicked (the disc is  *)
(* on the board by then; the turn is not passed and nothing is broadcast)  *)
handleConnectFourMove(game, playerID, col) ==
    LET idxs == {i \in 1..2 : game.players[i] = playerID}
        playerIndex == IF idxs = {} THEN 0 - 1
                       ELSE (CHOOSE i \in idxs : \A k \in idxs : i <= k) - 1
        empty == {r \in 0..5 : game.board[r][col] = ""}
        row == IF empty = {} THEN 0 - 1 ELSE CHOOSE r \in empty : \A q \in empty : q <= r
        placed == [game EXCEPT !.board[row][col] = <<"R", "Y">>[playerIndex + 1]]
        winner == checkConnectFourWinner(placed.board, col, row)
        won == IF winner # "" THEN [placed EXCEPT !.winner = playerID] ELSE placed
        full == \A r \in 0..5, c \in 0..6 : won.board[r][c] # ""
        drawn == IF won.winner = NoPlayer /\ full
                 THEN [won EXCEPT !.winner = DrawWinner] ELSE won
        reject(error) == [game |-> game, error |-> error, panic |-> FALSE]
    IN  IF game.winner # NoPlayer THEN reject("Game already over")
        ELSE IF playerIndex = 0 - 1 \/ playerIndex # game.turn THEN reject("Not your turn")
        ELSE IF col < 0 \/ col >= 7 THEN reject("Invalid column")
        ELSE IF row = 0 - 1 THEN reject("Column full")
        ELSE IF winner = "panic" THEN [game |-> placed, error |-> "", panic |-> TRUE]
        ELSE [game |-> IF drawn.winner = NoPlayer
                       THEN [drawn EXCEPT !.turn = 1 - @] ELSE drawn,
              error |-> "", panic |-> FALSE]

(* create_room "connectfour" by player 1, join_room by player 2,           *)
(* start_game: an empty board, Players from the room, Turn 0               *)
InitConnectFour ==
    /\ rooms = MapPut(EmptyMap, 1,
                 startGameRoom(Room(1, <<1, 2>>, "connectfour", "", NoPassword), 1))
    /\ clients = [c \in 1..2 |-> Client(c, 1)]
    /\ quickMatch = <<>>
    /\ tictactoeGames = EmptyMap
    /\ jeopardyGames = EmptyMap
    /\ checkersGames = EmptyMap
    /\ otherGames = [t \in OtherTypes |-> IF t = "connectfour" THEN {1} ELSE {}]
    /\ mu = MuFree
    /\ reply = NoReply
    /\ inbox = [c \in Conns |-> <<>>]
    /\ bcast = [c \in Conns |-> [msg |-> 0, todo |-> {}]]
    /\ chatSeq = 0
    /\ moveCount = 0
    /\ ans = [c \in Conns |-> IdleAnswer]
    /\ InitGameRoom
    /\ engineGames =
          [t \in OtherTypes |->
              IF t = "connectfour"
              THEN MapPut(EmptyMap, 1,
                      [board |-> [r \in 0..5 |-> [c \in 0..6 |-> ""]],
                       players |-> <<1, 2>>,
                       turn |-> 0,
                       winner |-> NoPlayer])
              ELSE EmptyMap]

(* handleMakeMove of the later revision, game type "connectfour": it hands *)
(* over to handleConnectFourMove, which ends with broadcastGameState; a    *)
(* panic ends the session's read loop before anything is sent              *)
NextConnectFour ==
    \E c \in Conns, gameID \in GameIDs, col \in (0 - 1)..7 :
        LET found == /\ \E code \in DOMAIN rooms :
                           /\ rooms[code].gameID = gameID
                           /\ rooms[code].gameType = "connectfour"
                     /\ gameID \in DOMAIN engineGames["connectfour"]
            res == handleConnectFourMove(engineGames["connectfour"][gameID],
                                         clients[c].playerID, col)
        IN  /\ mu = MuFree
            /\ c \in DOMAIN clients
            /\ moveCount < MaxMoves
            /\ engineGames' = IF found
                              THEN [engineGames EXCEPT !["connectfour"][gameID] = res.game]
                              ELSE engineGames
            /\ moveCount' = IF engineGames' # engineGames THEN moveCount + 1 ELSE moveCount
            /\ reply' = IF ~found \/ res.error # ""
                        THEN Reply(c, "make_move", "rejected", <<Frame(c, "error")>>)
                        ELSE IF res.panic THEN Reply(c, "make_move", "panic", <<>>)
                        ELSE Reply(c, "make_move", "ok",
                                   FramesTo(DOMAIN clients, "game_state"))
            /\ UNCHANGED <<hubVars, bcastVars, ans, grVars>>

SpecConnectFour == InitConnectFour /\ [][NextConnectFour]_vars

(* C37: in Connect Four, for every column 0..6 and every board, a legal    *)
(* drop puts the disc in the lowest empty cell of the column and the       *)
(* handler completes; the placer is winner exactly when four of the        *)
(* placer's discs lie in a horizontal, vertical or diagonal line through   *)
(* the placed disc; a drop that fills the board without such a line sets   *)
(* winner to draw.                                                         *)
FourThrough(board, row, col) ==
    \E dr \in {0, 1}, dc \in {0 - 1, 0, 1}, k \in 0..3 :
        /\ <<dr, dc>> \in {<<0, 1>>, <<1, 0>>, <<1, 1>>, <<1, 0 - 1>>}
        /\ \A j \in 0..3 :
              /\ row + (j - k) * dr \in 0..5
              /\ col + (j - k) * dc \in 0..6
              /\ board[row + (j - k) * dr][col + (j - k) * dc] = board[row][col]

C37_ConnectFourDrop ==
    \A col \in 0..6 :
        LET game == engineGames["connectfour"][1]
            mover == game.players[game.turn + 1]
            empty == {r \in 0..5 : game.board[r][col] = ""}
            res == handleConnectFourMove(game, mover, col)
            after == res.game
        IN  (game.winner = NoPlayer /\ empty # {}) =>
                LET row == CHOOSE r \in empty : \A q \in empty : q <= r
                IN  /\ ~res.panic /\ res.error = ""
                    /\ after.board = [game.board EXCEPT ![row][col] =
                                          <<"R", "Y">>[game.turn + 1]]
                    /\ after.winner = mover <=> FourThrough(after.board, row, col)
                    /\ (\A r \in 0..5, c \in 0..6 : after.board[r][c] # "")
                          => (after.winner = DrawWinner
                                <=> ~FourThrough(after.board, row, col))

(* C38: in Checkers a non-king piece that arrives on the far row (row 0    *)
(* for the first player, whose pieces start on rows 5..7 and move towards  *)
(* row 0; row 7 for the second) becomes a king, and the mover is declared  *)
(* winner exactly when the opponent has no piece left after the move.      *)
C38_CrownAndWin ==
    [][reply'.outcome = "ok" =>
        LET game == checkersGames[1]
            after == checkersGames'[1]
            farRow == IF game.turn = 0 THEN 0 ELSE 7
            opponents == {sq \in Squares \X Squares :
                             after.board[sq[1]][sq[2]].player = 2 - game.turn}
        IN  /\ \A col \in Squares :
                  (/\ after.board[farRow][col].player = game.turn + 1
                   /\ after.board[farRow][col] # game.board[farRow][col])
                  => after.board[farRow][col].king
            /\ after.winner = game.players[game.turn + 1] <=> opponents = {}]_vars

(* ======================= Dots & Boxes (hub engine) ====================== *)
(* handleDotsBoxesMove on a game that exists: the game afterwards, the     *)
(* error sent ("" for none) and whether the handler panicked. The board is *)
(* Horizontal [6][7]bool and Vertical [7][6]bool, held as the sets of the  *)
(* <<row, col>> that are true. The box loop runs over r < 5 and c < 6 and  *)
(* reads Vertical[r][c+1] last: with c = 5 that index is out of range, a   *)
(* run-time panic in Go, which leaves the line and the boxes appended so   *)
(* far in the game and neither scores nor passes the turn.                 *)
handleDotsBoxesMove(game, playerID, moveType, row, col) ==
    LET idxs == {i \in 1..2 : game.players[i] = playerID}
        playerIndex == IF idxs = {} THEN 0 - 1
                       ELSE (CHOOSE i \in idxs : \A k \in idxs : i <= k) - 1
        drawn == IF moveType = "horizontal"
                 THEN [game EXCEPT !.horizontal = @ \cup {<<row, col>>}]
                 ELSE [game EXCEPT !.vertical = @ \cup {<<row, col>>}]
        cells == [k \in 1..30 |-> <<(k - 1) \div 6, (k - 1) % 6>>]
        three(rc) == /\ rc \in drawn.horizontal
                     /\ <<rc[1] + 1, rc[2]>> \in drawn.horizontal
                     /\ rc \in drawn.vertical
        panics == {k \in 1..30 : cells[k][2] = 5 /\ three(cells[k])}
        stop == IF panics = {} THEN 31 ELSE CHOOSE k \in panics : \A j \in panics : k <= j
        new == SelectSeq(SubSeq(cells, 1, stop - 1),
                         LAMBDA rc : /\ three(rc)
                                     /\ <<rc[1], rc[2] + 1>> \in drawn.vertical
                                     /\ ~Contains(game.boxes, rc))
        boxed == [drawn EXCEPT !.boxes = @ \o new]
        scored == IF Len(new) > 0
                  THEN [boxed EXCEPT !.scores[playerIndex + 1] = @ + Len(new)]
                  ELSE [boxed EXCEPT !.turn = 1 - @]
        reject(error) == [game |-> game, error |-> error, panic |-> FALSE]
    IN  IF game.gameOver THEN reject("Game already over")
        ELSE IF playerIndex = 0 - 1 \/ playerIndex # game.turn THEN reject("Not your turn")
        ELSE IF moveType \notin {"horizontal", "vertical"} THEN reject("Invalid move type")
        ELSE IF moveType = "horizontal" /\ (row < 0 \/ row > 5 \/ col < 0 \/ col > 6)
        THEN reject("Invalid position")
        ELSE IF moveType = "vertical" /\ (row < 0 \/ row > 6 \/ col < 0 \/ col > 5)
        THEN reject("Invalid position")
        ELSE IF moveType = "horizontal" /\ <<row, col>> \in game.horizontal
        THEN reject("Already drawn")
        ELSE IF moveType = "vertical" /\ <<row, col>> \in game.vertical
        THEN reject("Already drawn")
        ELSE IF panics # {} THEN [game |-> boxed, error |-> "", panic |-> TRUE]
        ELSE [game |-> [scored EXCEPT !.gameOver = Len(scored.boxes) >= 36],
              error |-> "", panic |-> FALSE]

(* create_room "dotsboxes" by player 1, join_room by player 2, start_game  *)
InitDotsBoxes ==
    /\ rooms = MapPut(EmptyMap, 1,
                 startGameRoom(Room(1, <<1, 2>>, "dotsboxes", "", NoPassword), 1))
    /\ clients = [c \in 1..2 |-> Client(c, 1)]
    /\ quickMatch = <<>>
    /\ tictactoeGames = EmptyMap
    /\ jeopardyGames = EmptyMap
    /\ checkersGames = EmptyMap
    /\ otherGames = [t \in OtherTypes |-> IF t = "dotsboxes" THEN {1} ELSE {}]
    /\ mu = MuFree
    /\ reply = NoReply
    /\ inbox = [c \in Conns |-> <<>>]
    /\ bcast = [c \in Conns |-> [msg |-> 0, todo |-> {}]]
    /\ chatSeq = 0
    /\ moveCount = 0
    /\ ans = [c \in Conns |-> IdleAnswer]
    /\ InitGameRoom
    /\ engineGames =
          [t \in OtherTypes |->
              IF t = "dotsboxes"
              THEN MapPut(EmptyMap, 1,
                      [players |-> <<1, 2>>,
                       turn |-> 0,
                       horizontal |-> {},
                       vertical |-> {},
                       scores |-> <<0, 0>>,
                       boxes |-> <<>>,
                       gameOver |-> FALSE])
              ELSE EmptyMap]

(* handleMakeMove of the later revision, game type "dotsboxes": it hands   *)
(* over to handleDotsBoxesMove, which ends with broadcastGameState; the    *)
(* lines are drawn from two corners of the grid and from outside it        *)
NextDotsBoxes ==
    \E c \in Conns, moveType \in {"horizontal", "vertical", "diagonal"},
       row \in {0, 1, 6, 7}, col \in {0, 1, 5, 6} :
        LET found == /\ \E code \in DOMAIN rooms :
                           /\ rooms[code].gameID = 1
                           /\ rooms[code].gameType = "dotsboxes"
                     /\ 1 \in DOMAIN engineGames["dotsboxes"]
            res == handleDotsBoxesMove(engineGames["dotsboxes"][1],
                                       clients[c].playerID, moveType, row, col)
        IN  /\ mu = MuFree
            /\ c \in DOMAIN clients
            /\ moveCount < MaxMoves
            /\ engineGames' = IF found
                              THEN [engineGames EXCEPT !["dotsboxes"][1] = res.game]
                              ELSE engineGames
            /\ moveCount' = IF engineGames' # engineGames THEN moveCount + 1 ELSE moveCount
            /\ reply' = IF ~found \/ res.error # ""
                        THEN Reply(c, "make_move", "rejected", <<Frame(c, "error")>>)
                        ELSE IF res.panic THEN Reply(c, "make_move", "panic", <<>>)
                        ELSE Reply(c, "make_move", "ok",
                                   FramesTo(DOMAIN clients, "game_state"))
            /\ UNCHANGED <<hubVars, bcastVars, ans, grVars>>

SpecDotsBoxes == InitDotsBoxes /\ [][NextDotsBoxes]_vars

(* C39: in Dots & Boxes on the 6x6 box grid (box <<r, c>> has the          *)
(* horizontal lines <<r, c>> and <<r+1, c>> and the vertical lines         *)
(* <<r, c>> and <<r, c+1>> as sides) every line of the grid can be drawn   *)
(* exactly once; a box whose four sides are drawn is claimed exactly once, *)
(* with the move that drew its last side; the scores sum to the number of  *)
(* claimed boxes; the mover keeps the turn exactly when the move completed *)
(* a box; game_over is true exactly when all 36 boxes are claimed.         *)
GridLines ==
    ({"horizontal"} \X (0..6) \X (0..5)) \cup ({"vertical"} \X (0..5) \X (0..6))

IsDrawn(game, line) ==
    <<line[2], line[3]>> \in (IF line[1] = "horizontal" THEN game.horizontal
                              ELSE game.vertical)

Closed(game) ==
    {rc \in (0..5) \X (0..5) :
        /\ rc \in game.horizontal /\ <<rc[1] + 1, rc[2]>> \in game.horizontal
        /\ rc \in game.vertical /\ <<rc[1], rc[2] + 1>> \in game.vertical}

C39_DotsBoxes ==
    LET game == engineGames["dotsboxes"][1]
        claimed == {game.boxes[i] : i \in 1..Len(game.boxes)}
    IN  /\ claimed = Closed(game)
        /\ Cardinality(claimed) = Len(game.boxes)
        /\ game.scores[1] + game.scores[2] = Len(game.boxes)
        /\ game.gameOver <=> Len(game.boxes) = 36
        /\ ~game.gameOver =>
              \A line \in GridLines :
                  LET res == handleDotsBoxesMove(game, game.players[game.turn + 1],
                                                 line[1], line[2], line[3])
                      done == Closed(res.game) \ Closed(game)
                  IN  IF IsDrawn(game, line) THEN res.error # ""
                      ELSE /\ res.error = "" /\ ~res.panic
                           /\ IsDrawn(res.game, line)
                           /\ res.game.turn = game.turn <=> done # {}
                           /\ res.game.scores[game.turn + 1] =
                                  game.scores[game.turn + 1] + Cardinality(done)

(* ================= a game and a session outside its room ================ *)
(* create_room in speed mode and start_game by player 1 on session 1;      *)
(* session 2 is connected and has joined no room                           *)
InitOutsider ==
    /\ \E gameType \in {"tictactoe", "jeopardy"} :
          LET room == Room(1, <<1>>, gameType, "speed", NoPassword)
          IN  /\ rooms = MapPut(EmptyMap, 1, startGameRoom(room, 1))
              /\ tictactoeGames = startGameTicTacToe(EmptyMap, room, 1)
              /\ jeopardyGames = startGameJeopardy(EmptyMap, room, 1)
    /\ clients = [c \in 1..2 |-> IF c = 1 THEN Client(1, 1) ELSE Client(NoPlayer, NoCode)]
    /\ quickMatch = <<>>
    /\ checkersGames = EmptyMap
    /\ otherGames = [t \in OtherTypes |-> {}]
    /\ mu = MuFree
    /\ reply = NoReply
    /\ inbox = [c \in Conns |-> <<>>]
    /\ bcast = [c \in Conns |-> [msg |-> 0, todo |-> {}]]
    /\ chatSeq = 0
    /\ moveCount = 0
    /\ ans = [c \in Conns |-> IdleAnswer]
    /\ InitGameRoom
    /\ engineGames = [t \in OtherTypes |-> EmptyMap]

SpecOutsider == InitOutsider /\ [][NextTicTacToe \/ NextJeopardy]_vars

(* C40: a game_state, timeout or game_over message produced by a move or   *)
(* an answer in one room's game is delivered only to sessions whose room   *)
(* code is that room.                                                      *)
C40_RoomOnlyFrames ==
    reply.cmd \in {"make_move", "answer"} =>
        \A i \in 1..Len(reply.frames) :
            reply.frames[i].type \in {"game_state", "timeout", "game_over"}
            => \E code \in DOMAIN rooms :
                  /\ rooms[code].gameID = 1
                  /\ clients[reply.frames[i].to].roomCode = code

====
